---- MODULE Spec2Model ----
(***************************************************************************)
(* A model of score-heap: ScoreHeap (src/src/ScoreHeap.js), Partition      *)
(* (src/unnamed/part_000), UniformPartition (src/src/UniformPartition.js)  *)
(* and the utilities searchBinary / interleaveArrays                       *)
(* (src/unnamed/part_001).                                                 *)
(*                                                                         *)
(* Typed arrays (Int32Array) are sequences; the code's 0-based position i  *)
(* is element i + 1 of the sequence, and the accessors Get / Put keep the  *)
(* code's 0-based positions.  Reading outside an array yields Undefined    *)
(* and writing outside an array is ignored, as for a JavaScript typed      *)
(* array.                                                                  *)
(***************************************************************************)
EXTENDS Integers, Sequences, FiniteSets, TLC

MIN_SECTOR_LENGTH == 32
TARGET_SECTOR_LENGTH == 1024
MAX_SECTOR_LENGTH == 4096

\* JavaScript's undefined and null (the code only compares them loosely, so
\* one value stands for both).  Scores and identifiers of the model are small
\* integers, so the value never collides with a number the program holds.
Undefined == 0 - 1000000
Null == Undefined
IsDef(v) == v # Undefined

NoErr == "none"

Min2(a, b) == IF a < b THEN a ELSE b
Max2(a, b) == IF a > b THEN a ELSE b

---------------------------------------------------------------------------
(* Int32Array *)

\* the sequence of the values f[1], ..., f[n]
Array(f, n) == SubSeq(f, 1, n)

Zeros(n) == Array([i \in 1..n |-> 0], n)

Get(a, i) == IF i >= 0 /\ i < Len(a) THEN a[i + 1] ELSE Undefined

Put(a, i, v) == IF i >= 0 /\ i < Len(a) THEN [a EXCEPT ![i + 1] = v] ELSE a

\* a.subarray(b, e) for 0 <= b; both ends are clamped to the array
Subarray(a, b, e) ==
    LET bb == Min2(Max2(b, 0), Len(a))
        ee == Min2(Max2(e, 0), Len(a))
    IN SubSeq(a, bb + 1, ee)

\* a.set(src, off) throws a RangeError when src does not fit
SetFits(a, src, off) == Len(src) + off <= Len(a)

SetArr(a, src, off) ==
    SubSeq(a, 1, off) \o Array(src, Len(src)) \o SubSeq(a, off + Len(src) + 1, Len(a))

\* a loop  for (i = from; i < to; ++i) a[At(i)] = Val(i) : every position holds
\* the value of the last iteration that wrote it; writes outside a are ignored
WriteAll(a, from, to, At(_), Val(_)) ==
    Array([k \in 1..Len(a) |->
             LET W == {i \in from..(to - 1) : At(i) = k - 1}
             IN IF W = {} THEN a[k] ELSE Val(CHOOSE i \in W : \A j \in W : j <= i)],
          Len(a))

\* TLC evaluates an operator's arguments when they are first read; Strict(a, e)
\* reads the array a before e, so that a loop carries its array as a value and
\* not as a chain of pending writes
Strict(a, e) == IF Len(a) >= 0 THEN e ELSE e

---------------------------------------------------------------------------
(* utility: searchBinary, interleaveArrays *)

\* the while loop of searchBinary; cmp is the comparator fn as a function of
\* the position.  Returns <<currentIndex, result>>.
RECURSIVE SearchLoop(_, _, _, _, _)
SearchLoop(cmp, minIndex, maxIndex, currentIndex, result) ==
    IF minIndex <= maxIndex
    THEN LET c == (minIndex + maxIndex) \div 2
             r == cmp[c]
         IN IF r > 0 THEN SearchLoop(cmp, c + 1, maxIndex, c, r)
            ELSE IF r < 0 THEN SearchLoop(cmp, minIndex, c - 1, c, r)
            ELSE <<c, r>>
    ELSE <<currentIndex, result>>

\* a search that returns the last position probed, without the final increment
searchBinaryLastProbe(length, cmp) ==
    LET e == SearchLoop(cmp, 0, length - 1, Undefined, Undefined)
    IN e[1]

\* a search that returns the position after the match
searchBinaryPastMatch(length, cmp) ==
    LET e == SearchLoop(cmp, 0, length - 1, Undefined, Undefined)
    IN IF IsDef(e[2]) /\ e[2] >= 0 THEN e[1] + 1 ELSE e[1]

searchBinary(length, cmp) ==
    LET e == SearchLoop(cmp, 0, length - 1, Undefined, Undefined)
    IN IF IsDef(e[2]) /\ e[2] > 0 THEN e[1] + 1 ELSE e[1]

\* an inner loop that takes from src2 also when the comparator is zero
RECURSIVE InterleaveTakeOnTie(_, _, _, _, _, _, _)
InterleaveTakeOnTie(dest, src1, src2, fn, i, j, k) ==
    Strict(dest,
        IF k < Len(src2) /\ (j = Len(src1) \/ fn[j, k] <= 0)
        THEN InterleaveTakeOnTie(Put(dest, i, Get(src2, k)), src1, src2, fn,
                                 i + 1, j, k + 1)
        ELSE <<dest, i, k>>)

\* the inner while loop of interleaveArrays: <<dest, i, k>>
RECURSIVE InterleaveTake(_, _, _, _, _, _, _)
InterleaveTake(dest, src1, src2, fn, i, j, k) ==
    Strict(dest,
        IF k < Len(src2) /\ (j = Len(src1) \/ fn[j, k] < 0)
        THEN InterleaveTake(Put(dest, i, Get(src2, k)), src1, src2, fn, i + 1, j, k + 1)
        ELSE <<dest, i, k>>)

RECURSIVE InterleaveLoop(_, _, _, _, _, _, _)
InterleaveLoop(dest, src1, src2, fn, i, j, k) ==
    IF i < Len(src1) + Len(src2)
    THEN LET t == InterleaveTake(dest, src1, src2, fn, i, j, k)
         IN IF j < Len(src1)
            THEN InterleaveLoop(Put(t[1], t[2], Get(src1, j)), src1, src2, fn,
                                t[2] + 1, j + 1, t[3])
            ELSE InterleaveLoop(t[1], src1, src2, fn, t[2], j, t[3])
    ELSE dest

\* a merge that writes src2 and then src1, without comparing
interleaveSecondFirst(dest, src1, src2, fn) == SetArr(dest, src2 \o src1, 0)

\* a merge that writes src1 and then src2, without comparing
interleaveAppend(dest, src1, src2, fn) == SetArr(dest, src1 \o src2, 0)

interleaveArrays(dest, src1, src2, fn) == InterleaveLoop(dest, src1, src2, fn, 0, 0, 0)

---------------------------------------------------------------------------
(* Partition (sorted segment).  A partition is a record                    *)
(*   [id, uniform, indices, length, min];                                  *)
(* the methods take the shared lookups array and return                    *)
(*   [p |-> partition, lookups |-> lookups, err |-> error thrown].         *)

\* score - lookups[indices[i] * 3] || index - indices[i]
\* a comparison that orders equal scores by descending identifier
ScoreCmpIdDescending(lk, indices, score, index, i) ==
    LET s == Get(lk, Get(indices, i) * 3)
        d == IF IsDef(score) /\ IsDef(s) THEN score - s ELSE 0
    IN IF d # 0 THEN d ELSE Get(indices, i) - index

ScoreCmp(lk, indices, score, index, i) ==
    LET s == Get(lk, Get(indices, i) * 3)
        d == IF IsDef(score) /\ IsDef(s) THEN score - s ELSE 0
    IN IF d # 0 THEN d ELSE index - Get(indices, i)

ScoreCmpFn(lk, indices, length, score, index) ==
    [i \in 0..(length - 1) |-> ScoreCmp(lk, indices, score, index, i)]

\* a max that is the stored min
PartitionMaxAsMin(lk, p) == p.min

\* get max()
PartitionMax(lk, p) ==
    IF Len(p.indices) # 0 THEN Get(lk, Get(p.indices, p.length - 1) * 3) ELSE Undefined

\* Partition.reindex(removeIndex, insertIndex, index): [indices, err]
PartitionReindex(indices, length, removeIndex, insertIndex, index) ==
    IF removeIndex = insertIndex THEN [indices |-> indices, err |-> NoErr]
    ELSE IF removeIndex = Null
    THEN LET src == Subarray(indices, insertIndex, length)
         IN IF SetFits(indices, src, insertIndex + 1)
            THEN [indices |-> Put(SetArr(indices, src, insertIndex + 1), insertIndex, index),
                  err |-> NoErr]
            ELSE [indices |-> indices, err |-> "RangeError"]
    ELSE IF insertIndex = Null
    THEN LET src == Subarray(indices, removeIndex + 1, length)
         IN IF SetFits(indices, src, removeIndex)
            THEN [indices |-> SetArr(indices, src, removeIndex), err |-> NoErr]
            ELSE [indices |-> indices, err |-> "RangeError"]
    ELSE IF removeIndex < insertIndex
    THEN LET src == Subarray(indices, removeIndex + 1, insertIndex + 1)
         IN IF SetFits(indices, src, removeIndex)
            THEN [indices |-> Put(SetArr(indices, src, removeIndex), insertIndex, index),
                  err |-> NoErr]
            ELSE [indices |-> indices, err |-> "RangeError"]
    ELSE LET src == Subarray(indices, insertIndex, removeIndex)
         IN IF SetFits(indices, src, insertIndex + 1)
            THEN [indices |-> Put(SetArr(indices, src, insertIndex + 1), insertIndex, index),
                  err |-> NoErr]
            ELSE [indices |-> indices, err |-> "RangeError"]

\* the constructors' loop over i < n:
\*   lookups[indices[i] * 3 + 1] = id; lookups[indices[i] * 3 + 2] = i or -1
OwnLoop(lk, indices, id, n, uniform) ==
    WriteAll(WriteAll(lk, 0, n, LAMBDA i : (Get(indices, i) * 3) + 1, LAMBDA i : id),
             0, n, LAMBDA i : (Get(indices, i) * 3) + 2,
             LAMBDA i : IF uniform THEN i ELSE -1)

\* new Partition(id, lookups, indices, length)
NewPartition(lk, id, indices, length) ==
    [p |-> [id |-> id, uniform |-> FALSE, indices |-> indices, length |-> length,
            min |-> Get(lk, Get(indices, 0) * 3)],
     lookups |-> OwnLoop(lk, indices, id, length, FALSE),
     err |-> NoErr]

\* an insert that writes the identifier over the slot at its position,
\* without the shift of the tail
PartitionInsertOverwrites(lk, p, index, score, hint) ==
    LET lk1 == Put(lk, (index * 3) + 1, p.id)
        partitionIndex == IF hint # Null THEN hint
                          ELSE searchBinary(p.length,
                                   ScoreCmpFn(lk1, p.indices, p.length, score, index))
    IN [p |-> [p EXCEPT !.indices = Put(@, partitionIndex, index),
                        !.length = IF partitionIndex >= p.length THEN @ + 1 ELSE @,
                        !.min = IF partitionIndex = 0 THEN score ELSE @],
        lookups |-> lk1, err |-> NoErr]

\* Partition.insert(index, score, partitionIndex)
PartitionInsert(lk, p, index, score, hint) ==
    LET lk1 == Put(lk, (index * 3) + 1, p.id)
        partitionIndex == IF hint # Null THEN hint
                          ELSE searchBinary(p.length,
                                   ScoreCmpFn(lk1, p.indices, p.length, score, index))
        r == PartitionReindex(p.indices, p.length, Null, partitionIndex, index)
    IN IF r.err # NoErr THEN [p |-> p, lookups |-> lk1, err |-> r.err]
       ELSE [p |-> [p EXCEPT !.indices = r.indices,
                             !.length = @ + 1,
                             !.min = IF partitionIndex = 0 THEN score ELSE @],
             lookups |-> lk1, err |-> NoErr]

\* Partition.remove(index)
PartitionRemove(lk, p, index) ==
    LET score == Get(lk, index * 3)
        partitionIndex == searchBinary(p.length,
                              ScoreCmpFn(lk, p.indices, p.length, score, index))
        r == IF IsDef(partitionIndex) /\ partitionIndex < p.length - 1
             THEN PartitionReindex(p.indices, p.length, partitionIndex, Null, Undefined)
             ELSE [indices |-> p.indices, err |-> NoErr]
    IN IF r.err # NoErr THEN [p |-> p, lookups |-> lk, err |-> r.err]
       ELSE [p |-> [p EXCEPT !.indices = r.indices, !.length = @ - 1],
             lookups |-> Put(lk, (index * 3) + 1, -1),
             err |-> NoErr]

\* a split that returns the upper half in an array of its own length
PartitionSplitTight(p) ==
    [indices |-> Subarray(p.indices, p.length \div 2, p.length),
     p |-> [p EXCEPT !.length = @ \div 2],
     err |-> NoErr]

\* a split that copies the upper half and leaves the segment its length
PartitionSplitKeepsAll(p) ==
    [indices |-> SetArr(Zeros(p.length), Subarray(p.indices, p.length \div 2, Len(p.indices)), 0),
     p |-> p,
     err |-> NoErr]

\* Partition.split(): the detached upper half; the caller halves length.
\* Only full partitions are split, and their length is even.
PartitionSplit(p) ==
    LET src == Subarray(p.indices, p.length \div 2, Len(p.indices))
    IN [indices |-> SetArr(Zeros(p.length), src, 0),
        p |-> [p EXCEPT !.length = @ \div 2],
        err |-> IF SetFits(Zeros(p.length), src, 0) THEN NoErr ELSE "RangeError"]

\* an update that leaves the identifier where it is in the segment
PartitionUpdateNoMove(lk, p, index, score) == [p |-> p, lookups |-> lk, err |-> NoErr]

\* Partition.update(index, score): the lookups still hold the old score
PartitionUpdate(lk, p, index, score) ==
    LET currentScore == Get(lk, index * 3)
        sAt(ind, i) == Get(lk, Get(ind, i) * 3)
    IN IF score = currentScore THEN [p |-> p, lookups |-> lk, err |-> NoErr]
       ELSE
       LET cur == searchBinary(p.length,
                      ScoreCmpFn(lk, p.indices, p.length, currentScore, index))
       IN IF (cur > 0 /\ IsDef(sAt(p.indices, cur - 1)) /\ score <= sAt(p.indices, cur - 1))
             \/ (IsDef(cur) /\ cur < p.length - 1 /\ IsDef(sAt(p.indices, cur + 1))
                 /\ score >= sAt(p.indices, cur + 1))
          THEN LET found == Min2(p.length - 1, searchBinary(p.length,
                                ScoreCmpFn(lk, p.indices, p.length, score, index)))
                   partitionIndex ==
                       IF cur < found /\ found > 0
                          /\ ScoreCmp(lk, p.indices, score, index, found) < 0
                       THEN found - 1 ELSE found
                   r == IF cur # partitionIndex
                        THEN PartitionReindex(p.indices, p.length, cur, partitionIndex, index)
                        ELSE [indices |-> p.indices, err |-> NoErr]
               IN IF r.err # NoErr THEN [p |-> p, lookups |-> lk, err |-> r.err]
                  ELSE [p |-> [p EXCEPT !.indices = r.indices,
                                        !.min = IF partitionIndex = 0 THEN score
                                                ELSE IF cur = 0 THEN sAt(r.indices, 0)
                                                ELSE @],
                        lookups |-> lk, err |-> NoErr]
          ELSE [p |-> [p EXCEPT !.min = IF cur = 0 THEN score ELSE @],
                lookups |-> lk, err |-> NoErr]

\* the loop of Partition.join over the joined partition's identifiers
JoinOwnLoop(lk, partitionIndices, id) ==
    OwnLoop(lk, partitionIndices, id, Len(partitionIndices), FALSE)

\* lookups[x * 3] - lookups[y * 3], where the difference is NaN (and is
\* given as 0, which || passes over alike) when an identifier is outside the
\* side table.  The loop of join writes owners and slots only, so the scores
\* the comparator reads are those the side table held before it.
ScoreDiff(lk, x, y) ==
    IF IsDef(Get(lk, x * 3)) /\ IsDef(Get(lk, y * 3))
    THEN Get(lk, x * 3) - Get(lk, y * 3)
    ELSE 0

\* Partition.join(partition)
PartitionJoin(lk, p, partition) ==
    IF partition.length + p.length <= Len(p.indices)
    THEN LET partitionIndices == Subarray(partition.indices, 0, partition.length)
             mine == Subarray(p.indices, 0, p.length)
             lk1 == JoinOwnLoop(lk, partitionIndices, p.id)
             fn == [a \in 0..(Len(mine) - 1), b \in 0..(Len(partitionIndices) - 1) |->
                      LET d == ScoreDiff(lk, Get(partitionIndices, b), Get(p.indices, a))
                      IN IF d # 0 THEN d
                         ELSE Get(partitionIndices, b) - Get(p.indices, a)]
         IN [p |-> [p EXCEPT !.indices = interleaveArrays(Zeros(Len(p.indices)), mine,
                                                           partitionIndices, fn),
                             !.length = @ + partition.length],
             lookups |-> lk1, err |-> NoErr]
    ELSE [p |-> p, lookups |-> lk, err |-> "Error"]

\* Partition.next()
\* a next() that takes the identifier it returns out of the live region
PartitionNextPop(p) ==
    [p |-> IF p.length # 0 THEN [p EXCEPT !.length = @ - 1] ELSE p,
     ret |-> IF p.length # 0 THEN Get(p.indices, p.length - 1) ELSE Undefined]

\* a next() that reads the first slot of the segment instead of the last
PartitionNextFirst(p) ==
    [p |-> p, ret |-> IF p.length # 0 THEN Get(p.indices, 0) ELSE Undefined]

PartitionNext(p) ==
    [p |-> p, ret |-> IF p.length # 0 THEN Get(p.indices, p.length - 1) ELSE Undefined]

---------------------------------------------------------------------------
(* UniformPartition (all members share one score; removed slots hold -1)   *)

IsNeg(v) == IsDef(v) /\ v < 0

\* new UniformPartition(id, lookups, indices, length)
NewUniformPartition(lk, id, indices, length) ==
    [p |-> [id |-> id, uniform |-> TRUE, indices |-> indices, length |-> length,
            min |-> Get(lk, Get(indices, 0) * 3)],
     lookups |-> OwnLoop(lk, indices, id, length, TRUE),
     err |-> NoErr]

\* UniformPartition.insert(index)
\* an insert that appends the identifier and does not record its owner
UniformInsertNoOwner(lk, p, index) ==
    LET indices == IF Len(p.indices) = p.length
                   THEN SetArr(Zeros(p.length * 2), p.indices, 0)
                   ELSE p.indices
    IN [p |-> [p EXCEPT !.indices = Put(indices, p.length, index),
                        !.length = @ + 1],
        lookups |-> Put(lk, (index * 3) + 2, p.length),
        err |-> NoErr]

UniformInsert(lk, p, index) ==
    LET lk1 == Put(lk, (index * 3) + 1, p.id)
        indices == IF Len(p.indices) = p.length
                   THEN SetArr(Zeros(p.length * 2), p.indices, 0)
                   ELSE p.indices
        fits == Len(p.indices) # p.length \/ SetFits(Zeros(p.length * 2), p.indices, 0)
    IN IF ~fits THEN [p |-> p, lookups |-> lk1, err |-> "RangeError"]
       ELSE [p |-> [p EXCEPT !.indices = Put(indices, p.length, index),
                             !.length = @ + 1],
             lookups |-> Put(lk1, (index * 3) + 2, p.length),
             err |-> NoErr]

\* a join loop that records the slots of the appended identifiers and not
\* their new owner
UniformJoinLoopNoOwner(lk, indices, id, from, n) ==
    WriteAll(lk, from, n,
             LAMBDA i : IF IsDef(Get(indices, i)) /\ Get(indices, i) >= 0
                        THEN (Get(indices, i) * 3) + 2 ELSE -1,
             LAMBDA i : i)

\* the loop of UniformPartition.join over the appended region
\*   if (indices[i] >= 0) { lookups[indices[i] * 3 + 1] = id; [.. + 2] = i }
\* (a slot that holds -1 writes nowhere: position -1 is outside the array)
UniformJoinLoop(lk, indices, id, from, n) ==
    LET At(i, d) == IF IsDef(Get(indices, i)) /\ Get(indices, i) >= 0
                    THEN (Get(indices, i) * 3) + d ELSE -1
    IN WriteAll(WriteAll(lk, from, n, LAMBDA i : At(i, 1), LAMBDA i : id),
                from, n, LAMBDA i : At(i, 2), LAMBDA i : i)

\* UniformPartition.join(partition)
UniformJoin(lk, p, partition) ==
    LET grown == IF p.length + partition.length > Len(p.indices)
                 THEN SetArr(Zeros(p.length + partition.length), p.indices, 0)
                 ELSE p.indices
        fits1 == ~(p.length + partition.length > Len(p.indices))
                 \/ SetFits(Zeros(p.length + partition.length), p.indices, 0)
        src == Subarray(partition.indices, 0, partition.length)
    IN IF ~fits1 \/ ~SetFits(grown, src, p.length)
       THEN [p |-> p, lookups |-> lk, err |-> "RangeError"]
       ELSE LET indices == SetArr(grown, src, p.length)
            IN [p |-> [p EXCEPT !.indices = indices, !.length = @ + partition.length],
                lookups |-> UniformJoinLoop(lk, indices, p.id, p.length,
                                            partition.length + p.length),
                err |-> NoErr]

\* while (--this.length > 0 && indices[this.length - 1] < 0) {}: the length left
RECURSIVE UniformCompact(_, _)
UniformCompact(indices, length) ==
    IF length - 1 > 0 /\ IsNeg(Get(indices, length - 2))
    THEN UniformCompact(indices, length - 1)
    ELSE length - 1

\* a next() that takes the identifier it returns out of the live region
UniformNextConsuming(p) ==
    IF p.length # 0
    THEN LET length == IF IsNeg(Get(p.indices, p.length - 1))
                       THEN UniformCompact(p.indices, p.length)
                       ELSE p.length
         IN IF length # 0
            THEN [p |-> [p EXCEPT !.length = length - 1], ret |-> Get(p.indices, length - 1)]
            ELSE [p |-> [p EXCEPT !.length = 0, !.indices = Zeros(1)], ret |-> Undefined]
    ELSE [p |-> p, ret |-> Undefined]

\* UniformPartition.next()
UniformNext(p) ==
    IF p.length # 0
    THEN LET length == IF IsNeg(Get(p.indices, p.length - 1))
                       THEN UniformCompact(p.indices, p.length)
                       ELSE p.length
         IN IF length # 0
            THEN [p |-> [p EXCEPT !.length = length], ret |-> Get(p.indices, length - 1)]
            ELSE [p |-> [p EXCEPT !.length = 0, !.indices = Zeros(1)], ret |-> Undefined]
    ELSE [p |-> p, ret |-> Undefined]

\* a remove that clears the side table and leaves the slot as it is
UniformRemoveNoTombstone(lk, p, index) ==
    [p |-> p,
     lookups |-> Put(Put(lk, (index * 3) + 1, -1), (index * 3) + 2, -1),
     err |-> NoErr]

\* a remove that empties the segment when it tombstones the last live slot
UniformRemoveShrinks(lk, p, index) ==
    LET indices == Put(p.indices, Get(lk, (index * 3) + 2), -1)
    IN [p |-> [p EXCEPT !.indices = indices,
                        !.length = IF \A k \in 0..(p.length - 1) : IsNeg(Get(indices, k))
                                   THEN 0 ELSE @],
        lookups |-> Put(Put(lk, (index * 3) + 1, -1), (index * 3) + 2, -1),
        err |-> NoErr]

\* a remove that leaves the slot hint of the removed identifier in the side
\* table
UniformRemoveKeepsHint(lk, p, index) ==
    [p |-> [p EXCEPT !.indices = Put(@, Get(lk, (index * 3) + 2), -1)],
     lookups |-> Put(lk, (index * 3) + 1, -1),
     err |-> NoErr]

\* UniformPartition.remove(index)
UniformRemove(lk, p, index) ==
    LET partitionIndex == Get(lk, (index * 3) + 2)
    IN [p |-> [p EXCEPT !.indices = Put(@, partitionIndex, -1)],
        lookups |-> Put(Put(lk, (index * 3) + 1, -1), (index * 3) + 2, -1),
        err |-> NoErr]

\* UniformPartition.update(): noop
UniformUpdate(lk, p, index, score) == [p |-> p, lookups |-> lk, err |-> NoErr]

---------------------------------------------------------------------------
(* dynamic dispatch on the partition's class *)

PMax(lk, p) == IF p.uniform THEN p.min ELSE PartitionMax(lk, p)

PInsert(lk, p, index, score, hint) ==
    IF p.uniform THEN UniformInsert(lk, p, index) ELSE PartitionInsert(lk, p, index, score, hint)

PRemove(lk, p, index) ==
    IF p.uniform THEN UniformRemove(lk, p, index) ELSE PartitionRemove(lk, p, index)

PUpdate(lk, p, index, score) ==
    IF p.uniform THEN UniformUpdate(lk, p, index, score) ELSE PartitionUpdate(lk, p, index, score)

PJoin(lk, p, partition) ==
    IF p.uniform THEN UniformJoin(lk, p, partition) ELSE PartitionJoin(lk, p, partition)

PNext(p) == IF p.uniform THEN UniformNext(p) ELSE PartitionNext(p)

---------------------------------------------------------------------------
(* ScoreHeap.  A heap is a record                                          *)
(*   [lookups, partitions, partitionIds, nextId, partitionLength, err,     *)
(*    route];                                                              *)
(* partitions is the segment sequence (the code's position i is element    *)
(* i + 1), partitionIds[id + 1] is the position recorded for segment id,   *)
(* err is the error the last call threw and route names the branch of      *)
(* update() the last call took.                                            *)

\* comparisons of possibly undefined numbers (a comparison with NaN is false)
Le(a, b) == IsDef(a) /\ IsDef(b) /\ a <= b
Gt(a, b) == IsDef(a) /\ IsDef(b) /\ a > b
Ge(a, b) == IsDef(a) /\ IsDef(b) /\ a >= b

Part(h, i) == h.partitions[i + 1]

\* a splice that leaves the segment in the sequence
Splice1Kept(parts, i) == parts

Splice1(parts, i) == SubSeq(parts, 1, i) \o SubSeq(parts, i + 2, Len(parts))

\* an insertion of the new segment at the front of the sequence
SpliceInAtFront(parts, i, p) == <<p>> \o parts

\* a push of the new segment in place of the splice at position i
SpliceInAtEnd(parts, i, p) == Append(parts, p)

SpliceIn(parts, i, p) == SubSeq(parts, 1, i) \o <<p>> \o SubSeq(parts, i + 1, Len(parts))

\* this.partitionIds[id] = v
PidPut(pids, id, v) ==
    IF id < Len(pids) THEN [pids EXCEPT ![id + 1] = v] ELSE Append(pids, v)

\* the result of a partition method stored back at position i
Stored(h, i, r) ==
    [h EXCEPT !.partitions[i + 1] = r.p, !.lookups = r.lookups, !.err = r.err]

\* ScoreHeap.reindex(index)
ReindexLoop(pids, parts, index) ==
    WriteAll(pids, index, Len(parts), LAMBDA i : parts[i + 1].id, LAMBDA i : i)

\* a reindex that records nothing
HeapReindexNone(h, index) == h

HeapReindex(h, index) ==
    [h EXCEPT !.partitionIds = ReindexLoop(h.partitionIds, h.partitions, Max2(index, 0))]

\* ScoreHeap.insertPartition(index, indices, length); the new partition is at
\* position index afterwards
insertPartition(h, index, indices, length) ==
    LET r == NewPartition(h.lookups, h.nextId, indices, length)
    IN HeapReindex([h EXCEPT !.lookups = r.lookups,
                             !.partitionIds = PidPut(@, h.nextId, index),
                             !.nextId = @ + 1,
                             !.partitions = SpliceIn(@, index, r.p)],
                   index + 1)

\* ScoreHeap.joinPartitions(index)
joinPartitions(h, index) ==
    IF index >= 0 /\ index < Len(h.partitions) - 1
    THEN LET partition1 == Part(h, index)
             partition2 == Part(h, index + 1)
         IN IF partition1.min = PMax(h.lookups, partition2)
            THEN IF partition1.uniform
                 THEN LET r == PJoin(h.lookups, partition1, partition2)
                      IN IF r.err # NoErr THEN [h EXCEPT !.err = r.err]
                         ELSE HeapReindex([Stored(h, index, r) EXCEPT
                                              !.partitions = Splice1(@, index + 1)],
                                          index + 1)
                 ELSE IF partition2.uniform
                 THEN LET r == PJoin(h.lookups, partition2, partition1)
                      IN IF r.err # NoErr THEN [h EXCEPT !.err = r.err]
                         ELSE HeapReindex([Stored(h, index + 1, r) EXCEPT
                                              !.partitions = Splice1(@, index)],
                                          index)
                 ELSE LET partitionIndices ==
                              Subarray(partition1.indices, 0, partition1.length)
                              \o Subarray(partition2.indices, 0, partition2.length)
                          r == NewUniformPartition(h.lookups, h.nextId, partitionIndices,
                                                   Len(partitionIndices))
                      IN HeapReindex([h EXCEPT
                                         !.lookups = r.lookups,
                                         !.partitionIds = PidPut(@, h.nextId, index),
                                         !.nextId = @ + 1,
                                         !.partitions = SpliceIn(Splice1(Splice1(@, index),
                                                                         index), index, r.p)],
                                     index + 1)
            ELSE IF ~partition1.uniform /\ ~partition2.uniform
                    /\ partition1.length + partition2.length <= h.partitionLength
            THEN LET r == PJoin(h.lookups, partition1, partition2)
                 IN IF r.err # NoErr THEN [h EXCEPT !.err = r.err]
                    ELSE HeapReindex([Stored(h, index, r) EXCEPT
                                         !.partitions = Splice1(@, index + 1)],
                                     index + 0)
            ELSE h
    ELSE h

\* ScoreHeap.next(): [h, ret].  The tail partition's next() may compact it; a
\* tail whose next() is absent is popped and the new tail is asked.
RECURSIVE NextLoop(_)
\* a next() that gives up when the last segment has no live identifier
NextLoopNoRetry(parts) ==
    IF Len(parts) = 0 THEN [partitions |-> parts, ret |-> Undefined]
    ELSE LET r == PNext(parts[Len(parts)])
         IN IF r.ret = Undefined
            THEN [partitions |-> SubSeq(parts, 1, Len(parts) - 1), ret |-> Undefined]
            ELSE [partitions |-> [parts EXCEPT ![Len(parts)] = r.p], ret |-> r.ret]

NextLoop(parts) ==
    IF Len(parts) = 0 THEN [partitions |-> parts, ret |-> Undefined]
    ELSE LET r == PNext(parts[Len(parts)])
         IN IF r.ret = Undefined
            THEN NextLoop(SubSeq(parts, 1, Len(parts) - 1))
            ELSE [partitions |-> [parts EXCEPT ![Len(parts)] = r.p], ret |-> r.ret]

HeapNext(h) ==
    LET r == NextLoop(h.partitions)
    IN [h |-> [h EXCEPT !.partitions = r.partitions, !.err = NoErr, !.route = "next"],
        ret |-> r.ret]

\* a test that also takes the cleared owner -1 for a segment
OwnedOrCleared(partitionId) == IsDef(partitionId) /\ partitionId >= 0 - 1

\* a test that takes the owner read outside the side table for a segment
OwnedOrUndefined(partitionId) == ~IsDef(partitionId) \/ partitionId >= 0

\* if (partitionId >= 0): false of undefined as of a negative owner
Owned(partitionId) == IsDef(partitionId) /\ partitionId >= 0

\* ScoreHeap.remove(index): [h, ret]
HeapRemove(h0, index) ==
    LET h == [h0 EXCEPT !.err = NoErr, !.route = "remove"]
    IN IF Len(h.partitions) # 0
       THEN LET partitionId == Get(h.lookups, (index * 3) + 1)
            IN IF Owned(partitionId)
               THEN LET partitionIndex == Get(h.partitionIds, partitionId)
                    IN IF ~(partitionIndex >= 0 /\ partitionIndex < Len(h.partitions))
                       THEN [h |-> [h EXCEPT !.err = "TypeError"], ret |-> Undefined]
                       ELSE LET h1 == Stored(h, partitionIndex,
                                             PRemove(h.lookups, Part(h, partitionIndex), index))
                            IN [h |-> IF Part(h1, partitionIndex).length = 0
                                      THEN HeapReindex([h1 EXCEPT !.partitions =
                                                           Splice1(@, partitionIndex)],
                                                       partitionIndex)
                                      ELSE h1,
                                ret |-> index]
               ELSE [h |-> h, ret |-> Undefined]
       ELSE [h |-> h, ret |-> Undefined]

\* the comparator update() hands to searchBinary to find the new partition
FindPartitionFn(h, score) ==
    [i \in 0..(Len(h.partitions) - 1) |->
        IF Le(Part(h, i).min, score)
        THEN IF i = Len(h.partitions) - 1 \/ Gt(Part(h, i + 1).min, score) THEN 0 ELSE 1
        ELSE IF i = 0 THEN 0
        ELSE -1]

\* a test that sends every update through the remove / add branch
FastPathNever(h, currentPartitionIndex, score) == FALSE

\* a test that lets the current segment take every score
FastPathAnyScore(h, currentPartitionIndex, score) ==
    /\ IsDef(currentPartitionIndex)
    /\ currentPartitionIndex >= 0 /\ currentPartitionIndex < Len(h.partitions)

\* update(): "check if current partition can handle this internally"
FastPath(h, currentPartitionIndex, score) ==
    /\ IsDef(currentPartitionIndex)
    /\ currentPartitionIndex >= 0 /\ currentPartitionIndex < Len(h.partitions)
    /\ LET currentPartition == Part(h, currentPartitionIndex)
       IN IF currentPartition.uniform
          THEN currentPartition.min = score
          ELSE \/ Len(h.partitions) = 1
               \/ /\ Le(currentPartition.min, score)
                  /\ \/ currentPartitionIndex = Len(h.partitions) - 1
                     \/ Gt(Part(h, currentPartitionIndex + 1).min, score)

\* an update that re-inserts without the remove from the current segment
UpdateRemoveSkipped(h, currentPartitionIndex, index) == h

\* update(): the "remove" half of the remove / add branch
UpdateRemove(h, currentPartitionIndex, index) ==
    IF IsDef(currentPartitionIndex)
       /\ currentPartitionIndex >= 0 /\ currentPartitionIndex < Len(h.partitions)
    THEN LET h1 == Stored(h, currentPartitionIndex,
                          PRemove(h.lookups, Part(h, currentPartitionIndex), index))
         IN IF Part(h1, currentPartitionIndex).length = 0
            THEN joinPartitions(
                     HeapReindex([h1 EXCEPT !.partitions = Splice1(@, currentPartitionIndex)],
                                 currentPartitionIndex),
                     currentPartitionIndex - 1)
            ELSE h1
    ELSE h

\* a method result stored back, with the branch taken
Routed(h, i, r, route) == [Stored(h, i, r) EXCEPT !.route = route]

\* update(): the "add" half, cases 1 to 10, for a heap that holds partitions
UpdateAdd(h, index, score) ==
    LET partitionLength == h.partitionLength
        n == Len(h.partitions)
        partitionIndex == searchBinary(n, FindPartitionFn(h, score))
        partition == Part(h, partitionIndex)
        partitionMax == PMax(h.lookups, partition)
        hasLower == partitionIndex > 0
        hasUpper == partitionIndex < n - 1
        lowerPartition == Part(h, partitionIndex - 1)
        upperPartition == Part(h, partitionIndex + 1)
        single == SetArr(Zeros(partitionLength), <<index>>, 0)
    IN IF partition.uniform /\ partition.min = score
       THEN Routed(h, partitionIndex,
                   PInsert(h.lookups, partition, index, score, Null), "1")
       ELSE IF hasLower /\ lowerPartition.uniform /\ lowerPartition.min = score
       THEN Routed(h, partitionIndex - 1,
                   PInsert(h.lookups, lowerPartition, index, score, Null), "2")
       ELSE IF ~partition.uniform /\ partition.length < partitionLength
               /\ Gt(score, partitionMax)
       THEN Routed(h, partitionIndex,
                   PInsert(h.lookups, partition, index, score, partition.length), "3")
       ELSE IF /\ (partition.uniform \/ partition.length = partitionLength)
               /\ Ge(score, partitionMax)
               /\ hasUpper /\ ~upperPartition.uniform
               /\ upperPartition.length < partitionLength
       THEN Routed(h, partitionIndex + 1,
                   PInsert(h.lookups, upperPartition, index, score, 0), "5")
       ELSE IF /\ (partition.uniform \/ partition.length = partitionLength)
               /\ score = partition.min
               /\ hasLower /\ ~lowerPartition.uniform
               /\ \/ lowerPartition.length < partitionLength
                  \/ /\ score = lowerPartition.min
                     /\ lowerPartition.min = PMax(h.lookups, lowerPartition)
       THEN IF lowerPartition.length < partitionLength
            THEN Routed(h, partitionIndex - 1,
                        PInsert(h.lookups, lowerPartition, index, score, Null), "6")
            ELSE LET c == NewUniformPartition(h.lookups, lowerPartition.id,
                                              lowerPartition.indices, lowerPartition.length)
                 IN Routed(h, partitionIndex - 1,
                           PInsert(c.lookups, c.p, index, score, Null), "6c")
       ELSE IF partition.uniform
       THEN [insertPartition(h, IF Gt(score, partition.min) THEN partitionIndex + 1
                                ELSE partitionIndex, single, 1)
             EXCEPT !.route = "7"]
       ELSE IF partition.length < partitionLength
       THEN Routed(h, partitionIndex,
                   PInsert(h.lookups, partition, index, score, Null), "8")
       ELSE IF score = partition.min /\ partition.min = partitionMax
       THEN LET c == NewUniformPartition(h.lookups, partition.id, partition.indices,
                                         partition.length)
            IN Routed(h, partitionIndex, PInsert(c.lookups, c.p, index, score, Null), "9")
       ELSE LET sp == PartitionSplit(partition)
                h1 == insertPartition([h EXCEPT !.partitions[partitionIndex + 1] = sp.p],
                                      partitionIndex + 1, sp.indices, partitionLength \div 2)
                newPartition == Part(h1, partitionIndex + 1)
            IN IF sp.err # NoErr THEN [h EXCEPT !.err = sp.err, !.route = "10"]
               ELSE IF Gt(newPartition.min, score)
               THEN Routed(h1, partitionIndex,
                           PInsert(h1.lookups, Part(h1, partitionIndex), index, score, Null),
                           "10")
               ELSE Routed(h1, partitionIndex + 1,
                           PInsert(h1.lookups, newPartition, index, score, Null), "10")

\* ScoreHeap.update(index, score)
HeapUpdate(h0, index, score) ==
    LET h == [h0 EXCEPT !.err = NoErr, !.route = "update"]
        currentPartitionId == Get(h.lookups, (index * 3) + 1)
        currentPartitionIndex ==
            IF IsDef(currentPartitionId) /\ currentPartitionId >= 0
            THEN Get(h.partitionIds, currentPartitionId)
            ELSE Undefined
    IN IF FastPath(h, currentPartitionIndex, score)
       THEN LET h1 == Routed(h, currentPartitionIndex,
                             PUpdate(h.lookups, Part(h, currentPartitionIndex), index, score),
                             "fast")
            IN IF h1.err # NoErr THEN h1
               ELSE [h1 EXCEPT !.lookups = Put(@, index * 3, score)]
       ELSE LET h1 == UpdateRemove(h, currentPartitionIndex, index)
                h2 == [h1 EXCEPT !.lookups = Put(@, index * 3, score)]
            IN IF h1.err # NoErr THEN h1
               ELSE IF Len(h2.partitions) = 0
               THEN [insertPartition(h2, 0, SetArr(Zeros(h2.partitionLength), <<index>>, 0), 1)
                     EXCEPT !.route = "new"]
               ELSE UpdateAdd(h2, index, score)

---------------------------------------------------------------------------
(* constructor *)

\* 2 ** Math.floor(Math.log2(q)) for an integer q >= 1
RECURSIVE Pow2Floor(_)
Pow2Floor(q) == IF q < 2 THEN 1 ELSE 2 * Pow2Floor(q \div 2)

\* 2 ** Math.floor(Math.log2(n / TARGET_SECTOR_LENGTH)); below the target the
\* value is a fraction under one (zero for n = 0), which the clamp below raises
\* to MIN_SECTOR_LENGTH whatever it is, so it is given as 0
SectorPow(n) ==
    IF n >= TARGET_SECTOR_LENGTH THEN Pow2Floor(n \div TARGET_SECTOR_LENGTH) ELSE 0

\* a segment capacity without the clamp to MIN_SECTOR_LENGTH
SectorLengthUnclamped(n) == Max2(1, SectorPow(n))

ComputePartitionLength(n) ==
    Min2(MAX_SECTOR_LENGTH, Max2(MIN_SECTOR_LENGTH, SectorPow(n)))

\* the sort's comparator a[1] - b[1] || a[0] - b[0] is negative
PairBefore(a, b) == a[2] < b[2] \/ (a[2] = b[2] /\ a[1] < b[1])

\* indexScores.sort(...): the sort is stable, so the place of the pair at k
\* is the number of pairs the comparator or, failing it, the input order puts
\* before it
SortRank(pairs, k) ==
    Cardinality({j \in 1..Len(pairs) :
                    \/ PairBefore(pairs[j], pairs[k])
                    \/ (~PairBefore(pairs[k], pairs[j]) /\ j < k)}) + 1

\* a constructor that takes the pairs in the order given, without the sort
SortPairsAsGiven(pairs) == Array(pairs, Len(pairs))

SortPairs(pairs) ==
    LET n == Len(pairs)
        rank == Array([k \in 1..n |-> SortRank(pairs, k)], n)
    IN Array([r \in 1..n |-> pairs[CHOOSE k \in 1..n : rank[k] = r]], n)

\* where a uniform chunk that has reached position i (0-based, exclusive) ends
RECURSIVE UniformEnd(_, _)
UniformEnd(sorted, i) ==
    IF i < Len(sorted) /\ sorted[i + 1][2] = sorted[i][2]
    THEN UniformEnd(sorted, i + 1)
    ELSE i

\* this.lookups[index * 3] = score for the pairs at positions i .. n - 1
ScoreLoop(lk, sorted, i, n) ==
    WriteAll(lk, i, n, LAMBDA j : sorted[j + 1][1] * 3, LAMBDA j : sorted[j + 1][2])

\* the constructor's partition loop from position i of the sorted pairs
RECURSIVE ConstructLoop(_, _, _)
ConstructLoop(h, sorted, i) ==
    IF i < Len(sorted)
    THEN LET n == Min2(Len(sorted), i + h.partitionLength)
             uniform == (n - i = h.partitionLength) /\ sorted[n][2] = sorted[i + 1][2]
             end == IF uniform THEN UniformEnd(sorted, n) ELSE n
             chunk == Array([k \in 1..(end - i) |-> sorted[i + k][1]], end - i)
             lk1 == ScoreLoop(h.lookups, sorted, i, end)
             r == IF uniform
                  THEN NewUniformPartition(lk1, h.nextId, chunk, Len(chunk))
                  ELSE NewPartition(lk1, h.nextId,
                                    SetArr(Zeros(h.partitionLength), chunk, 0), Len(chunk))
         IN ConstructLoop([h EXCEPT !.lookups = r.lookups,
                                    !.partitionIds = PidPut(@, h.nextId, Len(h.partitions)),
                                    !.partitions = Append(@, r.p),
                                    !.nextId = @ + 1],
                          sorted, end)
    ELSE h

\* new ScoreHeap(indexScores, maxLength)
Construct(indexScores, maxLength) ==
    ConstructLoop([lookups |-> Array([i \in 1..(maxLength * 3) |-> -1], maxLength * 3),
                   partitions |-> <<>>,
                   partitionIds |-> <<>>,
                   nextId |-> 0,
                   partitionLength |-> ComputePartitionLength(Len(indexScores)),
                   err |-> NoErr,
                   route |-> "init"],
                  SortPairs(indexScores), 0)

-------------------------------------------------------------------------------------------------------------------------------------------------
(* the state machine: a heap driven by one caller *)

\* bounds of the model
MaxSteps == 2
MaxScore == 3
DrainFreeSteps == 0
DrainAfterSteps == 1

VARIABLES
    heap,      \* the ScoreHeap instance
    call,      \* the last call: [name, index, score, ret, segs, slots], with
               \* what it returned and the shape of the heap it was made on
    prev,      \* the call before it
    steps,     \* calls made so far by the free caller
    mode,      \* "free": any call; "drain": the next() / remove() loop; "done"
    drained,   \* the pairs <<identifier, score>> the drain loop has yielded
    start,     \* the identifiers that were present when the drain loop began
    members,   \* the caller's view: members[id] is the score the caller gave
               \* id (constructor or update), Undefined once removed
    script,    \* the calls a scripted caller has still to make, in order
    search,    \* a call of the utility searchBinary: [length, fn, ret, done],
               \* its arguments and, once it is made, what it returned
    merge      \* a call of the utility interleaveArrays: [src1, src2, cmp,
               \* dest, done]; cmp names the comparator passed and dest is the
               \* destination, written once the call is made

vars == <<heap, call, prev, steps, mode, drained, start, members, script, search,
         merge>>

\* no call of searchBinary by the caller
NoSearch == [length |-> 0, fn |-> <<>>, ret |-> Undefined, done |-> FALSE]

\* no call of interleaveArrays by the caller
NoMerge == [src1 |-> <<>>, src2 |-> <<>>, cmp |-> "none", dest |-> <<>>, done |-> FALSE]

\* the pairs <<from, score>>, ..., <<to, score>>
Run(from, to, score) ==
    Array([k \in 1..(to - from + 1) |-> <<from + k - 1, score>>], to - from + 1)

\* the constructor calls the model starts from: [maxLength, pairs]
Seeds ==
    << [maxLength |-> 3, pairs |-> <<(<<0, 1>>), (<<1, 2>>), (<<2, 3>>)>>],
       [maxLength |-> 2, pairs |-> <<>>],
       [maxLength |-> 33, pairs |-> Run(1, 32, 2)],
       [maxLength |-> 34, pairs |-> Run(0, 31, 2) \o <<(<<32, 3>>)>>],
       [maxLength |-> 34, pairs |-> Run(0, 15, 1) \o Run(16, 31, 2) \o <<(<<32, 3>>)>>],
       [maxLength |-> 33, pairs |-> <<(<<0, 1>>)>> \o Run(1, 31, 2)],
       [maxLength |-> 65, pairs |-> <<(<<0, 1>>)>> \o Run(1, 31, 2) \o Run(32, 62, 3)
                                    \o <<(<<63, 4>>)>>],
       [maxLength |-> 65, pairs |-> Run(0, 31, 1) \o Run(32, 63, 2)] >>

MaxLength(h) == Len(h.lookups) \div 3

Ids(h) == 0..(MaxLength(h) - 1)

\* the identifiers the caller passes: the two lowest and the two highest
OpIds(h) == {i \in Ids(h) : i < 2 \/ i >= MaxLength(h) - 2}

Scores == 1..MaxScore

\* the slots in use (live or tombstoned) over all the segments
RECURSIVE SlotsFrom(_, _)
SlotsFrom(parts, i) ==
    IF i > Len(parts) THEN 0 ELSE parts[i].length + SlotsFrom(parts, i + 1)

Slots(h) == SlotsFrom(h.partitions, 1)

\* the record of a call made on heap h
Called(h, name, index, score, r) ==
    [name |-> name, index |-> index, score |-> score, ret |-> r,
     segs |-> Len(h.partitions), slots |-> Slots(h)]

NoCall == [name |-> "init", index |-> Undefined, score |-> Undefined, ret |-> Undefined,
           segs |-> 0, slots |-> 0]

\* the caller's view after the constructor
InitMembers(pairs, maxLength) ==
    [i \in 0..(maxLength - 1) |->
        IF \E k \in 1..Len(pairs) : pairs[k][1] = i
        THEN pairs[CHOOSE k \in 1..Len(pairs) : pairs[k][1] = i][2]
        ELSE Undefined]

MemberIds == {i \in DOMAIN members : members[i] # Undefined}

Init ==
    /\ \E k \in 1..Len(Seeds) :
          /\ heap = Construct(Seeds[k].pairs, Seeds[k].maxLength)
          /\ members = InitMembers(Seeds[k].pairs, Seeds[k].maxLength)
    /\ call = NoCall
    /\ prev = NoCall
    /\ steps = 0
    /\ mode = "free"
    /\ drained = <<>>
    /\ start = {}
    /\ script = <<>>
    /\ search = NoSearch
    /\ merge = NoMerge

\* heap.update(index, score)
Update ==
    /\ mode = "free" /\ steps < MaxSteps
    /\ \E index \in OpIds(heap), score \in Scores :
          /\ heap' = HeapUpdate(heap, index, score)
          /\ call' = Called(heap, "update", index, score, Undefined)
          /\ members' = [members EXCEPT ![index] = score]
    /\ prev' = call
    /\ steps' = steps + 1
    /\ UNCHANGED <<mode, drained, start, script, search, merge>>

\* heap.remove(index)
Remove ==
    /\ mode = "free" /\ steps < MaxSteps
    /\ \E index \in OpIds(heap) :
          LET r == HeapRemove(heap, index)
          IN /\ heap' = r.h
             /\ call' = Called(heap, "remove", index, Undefined, r.ret)
             /\ members' = [members EXCEPT ![index] = Undefined]
    /\ prev' = call
    /\ steps' = steps + 1
    /\ UNCHANGED <<mode, drained, start, script, search, merge>>

\* heap.next()
GetNext ==
    /\ mode = "free" /\ steps < MaxSteps
    /\ LET r == HeapNext(heap)
       IN /\ heap' = r.h
          /\ call' = Called(heap, "next", Undefined, Undefined, r.ret)
    /\ prev' = call
    /\ steps' = steps + 1
    /\ UNCHANGED <<mode, drained, start, members, script, search, merge>>

\* the caller's loop  for (let i; (i = heap.next()) != null;) heap.remove(i) :
\* the loop's next(); the caller may begin the loop after DrainFreeSteps calls
\* at most, and may ask next() again before it removes or after the loop ended
DrainNext ==
    /\ \/ mode = "free" /\ steps <= DrainFreeSteps
       \/ mode \in {"drain", "done"}
    /\ LET r == HeapNext(heap)
       IN /\ heap' = r.h
          /\ call' = Called(heap, "next", Undefined, Undefined, r.ret)
          /\ mode' = IF r.ret = Undefined THEN "done" ELSE "drain"
    /\ prev' = call
    /\ start' = IF mode = "free" THEN MemberIds ELSE start
    /\ UNCHANGED <<steps, drained, members, script, search, merge>>

\* the loop's remove(i) of the identifier next() has just returned
DrainRemove ==
    /\ mode = "drain" /\ call.name = "next"
    /\ LET r == HeapRemove(heap, call.ret)
       IN /\ heap' = r.h
          /\ call' = Called(heap, "remove", call.ret, Undefined, r.ret)
    /\ drained' = Append(drained, <<call.ret, Get(heap.lookups, call.ret * 3)>>)
    /\ members' = [members EXCEPT ![call.ret] = Undefined]
    /\ prev' = call
    /\ UNCHANGED <<steps, mode, start, script, search, merge>>

Next == Update \/ Remove \/ GetNext \/ DrainNext \/ DrainRemove

Spec == Init /\ [][Next]_vars

---------------------------------------------------------------------------
(* the scripted caller: constructor inputs of every small shape, and call   *)
(* sequences that lead where the free caller's few calls do not (a join of  *)
(* segments, a conversion, the scenarios of the specification)              *)

\* the largest maxLength of the enumerated constructor inputs
MaxBuilt == 3

\* the constructor inputs [maxLength, pairs] with maxLength <= MaxBuilt: the
\* pairs are any sequence, in any order, of distinct identifiers below
\* maxLength with scores of Scores
BuiltInputs ==
    UNION {{[maxLength |-> m, pairs |-> q] :
               q \in {f \in UNION {[1..n -> (0..(m - 1)) \X Scores] : n \in 0..m} :
                         \A j, k \in DOMAIN f : f[j][1] = f[k][1] => j = k}} :
           m \in 0..MaxBuilt}

\* constructor inputs of more than one chunk: pairs out of order that sort
\* into two sorted segments; a uniform chunk that runs on past the chunk
\* boundary; a uniform, a mixed and a short chunk
LargeInputs ==
    { [maxLength |-> 35, pairs |-> Run(16, 32, 2) \o <<(<<33, 1>>)>> \o Run(0, 15, 2)],
      [maxLength |-> 35, pairs |-> <<(<<33, 3>>)>> \o Run(0, 32, 2)],
      [maxLength |-> 74, pairs |-> Run(41, 72, 3) \o Run(0, 31, 1) \o Run(32, 40, 2)] }

CallUpdate(index, score) == [name |-> "update", index |-> index, score |-> score]

CallRemove(index) == [name |-> "remove", index |-> index, score |-> Undefined]

CallNext == [name |-> "next", index |-> Undefined, score |-> Undefined]

\* remove(from), ..., remove(to)
Removes(from, to) ==
    Array([k \in 1..(to - from + 1) |-> CallRemove(from + k - 1)], to - from + 1)

\* the pairs <<0, 1>>, <<1, 2>>, ..., <<n - 1, n>>: distinct ascending scores
Ascending(n) == Array([k \in 1..n |-> <<k - 1, k>>], n)

\* the pairs <<n - 1, 1>>, <<n - 2, 2>>, ..., <<0, n>>
Descending(n) == Array([k \in 1..n |-> <<n - k, k>>], n)

\* two full sorted segments, the first with one score-1 identifier and
\* score-2 identifiers, the second with score-2 and score-3 identifiers
TwoMixed == <<(<<0, 1>>)>> \o Run(1, 48, 2) \o Run(49, 63, 3)

\* the scripted callers: [maxLength, pairs, calls]
Scripts ==
    << \* four equal scores, then next(), remove(3), next()
       [maxLength |-> 4, pairs |-> Run(0, 3, 5),
        calls |-> <<CallNext, CallRemove(3), CallNext>>],
       \* two equal scores, then update(0, 5), next()
       [maxLength |-> 2, pairs |-> Run(0, 1, 1),
        calls |-> <<CallUpdate(0, 5), CallNext>>],
       \* a full sorted segment of distinct ascending scores, then an update
       \* of an absent identifier above its max
       [maxLength |-> 34, pairs |-> Ascending(MIN_SECTOR_LENGTH),
        calls |-> <<CallUpdate(MIN_SECTOR_LENGTH, MIN_SECTOR_LENGTH + 1)>>],
       \* the same with the identifiers descending as the scores ascend
       [maxLength |-> 34, pairs |-> Descending(MIN_SECTOR_LENGTH),
        calls |-> <<CallUpdate(MIN_SECTOR_LENGTH + 1, MIN_SECTOR_LENGTH + 2)>>],
       \* a split, the upper half removed down to one identifier, identifier
       \* 5 moved to the last segment, and the update that empties the middle
       \* segment: its neighbours are sorted and are merged
       [maxLength |-> 34, pairs |-> <<(<<0, 1>>)>> \o Run(1, 32, 2),
        calls |-> <<CallUpdate(33, 1)>> \o Removes(16, 30)
                  \o <<CallRemove(5), CallUpdate(5, 2), CallUpdate(31, 5)>>],
       \* a full sorted segment of one score converted to uniform, an insert
       \* into the uniform segment below the target, a split, and the update
       \* that empties the middle segment: the uniform segment absorbs the
       \* sorted segment above it
       [maxLength |-> 67, pairs |-> TwoMixed,
        calls |-> <<CallUpdate(0, 2), CallUpdate(64, 2), CallUpdate(65, 2),
                    CallUpdate(66, 3)>>
                  \o Removes(33, 47) \o Removes(49, 63)
                  \o <<CallRemove(66), CallUpdate(32, 3)>>],
       \* the same without the conversion: two sorted segments of one score
       \* are joined into a new uniform segment
       [maxLength |-> 67, pairs |-> TwoMixed,
        calls |-> <<CallUpdate(0, 2), CallUpdate(66, 3)>>
                  \o Removes(33, 47) \o Removes(49, 63)
                  \o <<CallRemove(66), CallUpdate(32, 3)>>],
       \* the loop of the working example on three entries: next(), remove(i)
       \* and, when i is not the last entry, update(i + 1, score) with the
       \* random score 1, until next() is absent
       [maxLength |-> 3, pairs |-> <<(<<0, 1>>), (<<1, 2>>), (<<2, 3>>)>>,
        calls |-> <<CallNext, CallRemove(2),
                    CallNext, CallRemove(1), CallUpdate(2, 1),
                    CallNext, CallRemove(2),
                    CallNext, CallRemove(0), CallUpdate(1, 1),
                    CallNext, CallRemove(1), CallUpdate(2, 1),
                    CallNext, CallRemove(2),
                    CallNext>>] >>

\* the heap constructed from an input, before any call
Built(in, m, calls) ==
    /\ heap = Construct(in.pairs, in.maxLength)
    /\ members = InitMembers(in.pairs, in.maxLength)
    /\ call = NoCall
    /\ prev = NoCall
    /\ steps = 0
    /\ mode = m
    /\ drained = <<>>
    /\ start = {}
    /\ script = calls
    /\ search = NoSearch
    /\ merge = NoMerge

\* the free caller's heaps; the constructed heaps no call is made on; the
\* scripted callers' heaps
InitScript ==
    \/ Init
    \/ \E in \in BuiltInputs \cup LargeInputs : Built(in, "built", <<>>)
    \/ \E k \in 1..Len(Scripts) : Built(Scripts[k], "script", Scripts[k].calls)

\* what every scripted call does to the caller's record; when the script ends
\* the caller goes on as the free caller
Played ==
    /\ prev' = call
    /\ script' = Tail(script)
    /\ mode' = IF Tail(script) = <<>> THEN "free" ELSE "script"
    /\ UNCHANGED <<steps, drained, start, search, merge>>

\* the scripted heap.update(index, score)
PlayUpdate ==
    /\ mode = "script" /\ script # <<>> /\ Head(script).name = "update"
    /\ heap' = HeapUpdate(heap, Head(script).index, Head(script).score)
    /\ call' = Called(heap, "update", Head(script).index, Head(script).score, Undefined)
    /\ members' = [members EXCEPT ![Head(script).index] = Head(script).score]
    /\ Played

\* the scripted heap.remove(index)
PlayRemove ==
    /\ mode = "script" /\ script # <<>> /\ Head(script).name = "remove"
    /\ LET r == HeapRemove(heap, Head(script).index)
       IN /\ heap' = r.h
          /\ call' = Called(heap, "remove", Head(script).index, Undefined, r.ret)
    /\ members' = [members EXCEPT ![Head(script).index] = Undefined]
    /\ Played

\* the scripted heap.next()
PlayNext ==
    /\ mode = "script" /\ script # <<>> /\ Head(script).name = "next"
    /\ LET r == HeapNext(heap)
       IN /\ heap' = r.h
          /\ call' = Called(heap, "next", Undefined, Undefined, r.ret)
    /\ UNCHANGED members
    /\ Played

NextScript == Next \/ PlayUpdate \/ PlayRemove \/ PlayNext

SpecScript == InitScript /\ [][NextScript]_vars

\* the caller who begins the loop  for (let i; (i = heap.next()) != null;)
\* heap.remove(i)  anywhere: at any point of a script, or after
\* DrainAfterSteps free calls at most, which follow a constructor or a script
DrainNextAnywhere ==
    /\ \/ mode = "script"
       \/ mode = "free" /\ steps <= DrainAfterSteps
       \/ mode \in {"drain", "done"}
    /\ LET r == HeapNext(heap)
       IN /\ heap' = r.h
          /\ call' = Called(heap, "next", Undefined, Undefined, r.ret)
          /\ mode' = IF r.ret = Undefined THEN "done" ELSE "drain"
    /\ prev' = call
    /\ start' = IF mode \in {"free", "script"} THEN MemberIds ELSE start
    /\ UNCHANGED <<steps, drained, members, script, search, merge>>

NextDrain ==
    \/ Update \/ Remove \/ GetNext
    \/ PlayUpdate \/ PlayRemove \/ PlayNext
    \/ DrainNextAnywhere \/ DrainRemove

SpecDrain == InitScript /\ [][NextDrain]_vars

---------------------------------------------------------------------------
(* the caller that breaks the contract: identifiers outside [0, maxLength)  *)

\* the identifiers outside the range the caller passes: the one below it and
\* the two above it
OutIds(h) == {0 - 1, MaxLength(h), MaxLength(h) + 1}

\* heap.remove(index) with index out of range
RemoveOutside ==
    /\ mode = "free" /\ steps < MaxSteps
    /\ \E index \in OutIds(heap) :
          LET r == HeapRemove(heap, index)
          IN /\ heap' = r.h
             /\ call' = Called(heap, "remove", index, Undefined, r.ret)
    /\ prev' = call
    /\ steps' = steps + 1
    /\ UNCHANGED <<mode, drained, start, members, script, search, merge>>

\* heap.update(index, score) with index out of range; no call after it is
\* followed ("broken")
UpdateOutside ==
    /\ mode = "free" /\ steps < MaxSteps
    /\ \E index \in OutIds(heap), score \in Scores :
          /\ heap' = HeapUpdate(heap, index, score)
          /\ call' = Called(heap, "update", index, score, Undefined)
    /\ prev' = call
    /\ steps' = steps + 1
    /\ mode' = "broken"
    /\ UNCHANGED <<drained, start, members, script, search, merge>>

NextOutside == Next \/ RemoveOutside \/ UpdateOutside

\* the constructor calls this caller starts from: three pairs; none; a
\* uniform and a sorted segment; a full sorted segment
OutsideSeeds == {1, 2, 4, 6}

InitOutside == \E k \in OutsideSeeds : Built(Seeds[k], "free", <<>>)

SpecOutside == InitOutside /\ [][NextOutside]_vars

---------------------------------------------------------------------------
(* the caller of the utility: one call of searchBinary(length, fn)          *)

\* the longest range a search is made over
MaxSearch == 5

\* what a comparator returns, by sign
Signs == {0 - 1, 0, 1}

\* the arguments of a search: every length up to MaxSearch and every
\* comparator over the positions, given as the function of the position
SearchInputs ==
    UNION {{[length |-> n, fn |-> f, ret |-> Undefined, done |-> FALSE] :
               f \in [0..(n - 1) -> Signs]} :
           n \in 0..MaxSearch}

InitSearch ==
    /\ heap = Construct(<<>>, 0)
    /\ members = InitMembers(<<>>, 0)
    /\ call = NoCall
    /\ prev = NoCall
    /\ steps = 0
    /\ mode = "search"
    /\ drained = <<>>
    /\ start = {}
    /\ script = <<>>
    /\ search \in SearchInputs
    /\ merge = NoMerge

\* searchBinary(length, fn)
Search ==
    /\ mode = "search" /\ ~search.done
    /\ search' = [search EXCEPT !.ret = searchBinary(search.length, search.fn),
                                !.done = TRUE]
    /\ UNCHANGED <<heap, call, prev, steps, mode, drained, start, members, script,
                   merge>>

NextSearch == Search

SpecSearch == InitSearch /\ [][NextSearch]_vars

---------------------------------------------------------------------------
(* the caller of the utility: one call of interleaveArrays(dest, src1,     *)
(* src2, fn)                                                               *)

\* the longest source array of a merge
MaxMerge == 3

\* the elements of the sources are identifiers; src1 holds even and src2
\* odd ones, so that an element of the destination names its source
MergeElements(parity) == {e \in 2..((2 * MaxMerge) + 3) : e % 2 = parity}

\* the score an element is ordered by; elements of one source and of both
\* sources share scores
Key(e) == e \div 4

\* the array of the elements of S in ascending order
AscendingArray(S) ==
    Array([i \in 1..Cardinality(S) |->
              CHOOSE e \in S : Cardinality({x \in S : x < e}) = i - 1],
          Cardinality(S))

\* the ascending arrays of at most MaxMerge elements of one source
MergeSources(parity) ==
    {AscendingArray(S) : S \in {T \in SUBSET MergeElements(parity) :
                              Cardinality(T) <= MaxMerge}}

\* the comparators a caller passes: "join" is the one of Partition.join,
\* the difference of the scores or, when they are equal, of the identifiers;
\* "score" is a caller's comparator that is the difference of the scores
\* alone, and is 0 for elements of equal score
Comparators == {"join", "score"}

\* the arguments of a merge: two ascending sources, either of which may be
\* empty, a comparator, and a zeroed destination of the length of both
MergeInputs ==
    {[src1 |-> A, src2 |-> B, cmp |-> c, dest |-> Zeros(Len(A) + Len(B)),
      done |-> FALSE] :
        A \in MergeSources(0), B \in MergeSources(1), c \in Comparators}

\* the comparator of the merge as the function of the positions a of src1
\* and b of src2
MergeFn(src1, src2, cmp) ==
    [a \in 0..(Len(src1) - 1), b \in 0..(Len(src2) - 1) |->
        LET d == Key(Get(src2, b)) - Key(Get(src1, a))
        IN IF d # 0 \/ cmp = "score" THEN d
           ELSE Get(src2, b) - Get(src1, a)]

InitMerge ==
    /\ heap = Construct(<<>>, 0)
    /\ members = InitMembers(<<>>, 0)
    /\ call = NoCall
    /\ prev = NoCall
    /\ steps = 0
    /\ mode = "merge"
    /\ drained = <<>>
    /\ start = {}
    /\ script = <<>>
    /\ search = NoSearch
    /\ merge \in MergeInputs

\* interleaveArrays(dest, src1, src2, fn)
Merge ==
    /\ mode = "merge" /\ ~merge.done
    /\ merge' = [merge EXCEPT !.dest = interleaveArrays(merge.dest, merge.src1,
                                           merge.src2,
                                           MergeFn(merge.src1, merge.src2, merge.cmp)),
                              !.done = TRUE]
    /\ UNCHANGED <<heap, call, prev, steps, mode, drained, start, members, script,
                   search>>

NextMerge == Merge

SpecMerge == InitMerge /\ [][NextMerge]_vars

---------------------------------------------------------------------------
(* what a state shows of the heap *)

\* the side table's entry of an identifier: score, owning segment
ScoreOf(h, id) == Get(h.lookups, id * 3)

Owner(h, id) == Get(h.lookups, (id * 3) + 1)

\* the side table's slot hint of an identifier
SlotHint(h, id) == Get(h.lookups, (id * 3) + 2)

\* an identifier is present when the side table names an owning segment
Present(h, id) == IsDef(Owner(h, id)) /\ Owner(h, id) >= 0

PresentIds(h) == {id \in Ids(h) : Present(h, id)}

\* the identifiers in the live region of a segment: the slots below its
\* length, without the tombstones of a uniform segment
Live(p) ==
    {Get(p.indices, k) : k \in {j \in 0..(p.length - 1) : ~(p.uniform /\ IsNeg(Get(p.indices, j)))}}

\* the slots <<segment position, slot>> of the live regions that hold id
SlotsOf(h, id) ==
    UNION {{<<i, k>> : k \in {j \in 0..(h.partitions[i].length - 1) :
                                 Get(h.partitions[i].indices, j) = id}} :
           i \in 1..Len(h.partitions)}

\* the live slots of a segment: the slots below its length that hold no
\* tombstone
LiveSlots(p) ==
    {j \in 0..(p.length - 1) : ~(p.uniform /\ IsNeg(Get(p.indices, j)))}

\* the number of live slots in the segments from position i on
RECURSIVE LiveSlotsFrom(_, _)
LiveSlotsFrom(parts, i) ==
    IF i > Len(parts) THEN 0
    ELSE Cardinality(LiveSlots(parts[i])) + LiveSlotsFrom(parts, i + 1)

\* the identifiers in the live regions of the sequence
LiveIds(h) == UNION {Live(h.partitions[i]) : i \in 1..Len(h.partitions)}

\* the highest score the caller has given to a present identifier, and the
\* identifiers that have it
TopScore == CHOOSE m \in {members[i] : i \in MemberIds} :
                \A i \in MemberIds : members[i] <= m

Tied == {i \in MemberIds : members[i] = TopScore}

LargestOf(S) == CHOOSE i \in S : \A j \in S : j <= i

---------------------------------------------------------------------------
(* the claims *)

\* C1: after construction and any sequence of update/remove/next calls,
\* next() returns a present identifier whose score is at least the score of
\* every present identifier, and returns absent exactly when none is present.
\* Present is read both ways: from the calls made and from the side table.
C1_NextReturnsMax ==
    call.name = "next" =>
        /\ PresentIds(heap) = MemberIds
        /\ (call.ret = Undefined) <=> (MemberIds = {})
        /\ call.ret # Undefined =>
              /\ call.ret \in MemberIds
              /\ \A j \in MemberIds :
                    /\ members[j] <= members[call.ret]
                    /\ ScoreOf(heap, j) = members[j]

\* next() after an update or a remove picks the highest of different scores
C1_Witness ==
    /\ call.name = "next" /\ prev.name \in {"update", "remove"}
    /\ call.ret # Undefined
    /\ \E j \in MemberIds : members[j] < members[call.ret]

\* C2 as stated: whenever several present identifiers share the maximum
\* score, next() returns the one with the largest identifier value.
C2_TieLargestId ==
    (call.name = "next" /\ MemberIds # {}) => call.ret = LargestOf(Tied)

\* the identifiers of S all lie in one sorted segment
InOneSorted(S) ==
    \E i \in 1..Len(heap.partitions) :
        ~heap.partitions[i].uniform /\ S \subseteq Live(heap.partitions[i])

\* C2 as amended: whenever several present identifiers share the maximum
\* score, next() returns one of them, and it returns the one with the largest
\* identifier value when all of them lie in one sorted segment.
C2_TieLargestInSortedSegment ==
    (call.name = "next" /\ MemberIds # {}) =>
        LET tied == Tied
        IN /\ call.ret \in tied
           /\ InOneSorted(tied) => call.ret = LargestOf(tied)

\* next() after an update has given a smaller identifier the maximum score
\* that a larger identifier of the same sorted segment already has
C2_Witness ==
    /\ call.name = "next" /\ prev.name = "update"
    /\ Cardinality(Tied) >= 2
    /\ InOneSorted(Tied)
    /\ prev.index \in Tied /\ prev.index < call.ret

\* the segments of the sequence whose identifier is pid
SegmentsWithId(h, pid) == {i \in 1..Len(h.partitions) : h.partitions[i].id = pid}

\* C3: after update(id, s) with id in range, id is present, owned by exactly
\* one segment of the sequence (one live slot, in the segment the side table
\* names), and its side-table score is s, whether id was absent or present
\* before and whichever routing case was taken.
C3_UpdateMakesPresent ==
    call.name = "update" =>
        /\ heap.err = NoErr
        /\ Present(heap, call.index)
        /\ ScoreOf(heap, call.index) = call.score
        /\ Cardinality(SlotsOf(heap, call.index)) = 1
        /\ \A sl \in SlotsOf(heap, call.index) :
              SegmentsWithId(heap, Owner(heap, call.index)) = {sl[1]}

\* update() of an absent identifier that split a full sorted segment
C3_Witness ==
    /\ call.name = "update" /\ heap.route = "10"
    /\ Len(heap.partitions) > call.segs
    /\ Slots(heap) > call.slots

\* the parts of the heap a call can change
SameHeap(h1, h2) ==
    /\ h1.lookups = h2.lookups
    /\ h1.partitions = h2.partitions
    /\ h1.partitionIds = h2.partitionIds
    /\ h1.nextId = h2.nextId

\* C4: remove(id) of a present identifier returns id and leaves id not
\* present (side-table owner negative, id in no live region); from then on
\* no next() returns id until a later update(id, .) re-inserts it.
C4_RemovePresent ==
    [][/\ (call'.name = "remove" /\ Present(heap, call'.index)) =>
              /\ call'.ret = call'.index
              /\ heap'.err = NoErr
              /\ IsNeg(Owner(heap', call'.index))
              /\ SlotsOf(heap', call'.index) = {}
       /\ call'.name = "next" =>
              \A id \in Ids(heap) : members[id] = Undefined => call'.ret # id]_vars

\* next() after the remove of the identifier that next() would have returned
C4_Witness ==
    /\ call.name = "next" /\ prev.name = "remove" /\ prev.ret = prev.index
    /\ call.ret # Undefined /\ call.ret # prev.index
    /\ ScoreOf(heap, prev.index) >= ScoreOf(heap, call.ret)
    /\ heap.partitions[Len(heap.partitions)].uniform

\* C5: remove(id) of an in-range identifier that is not present returns
\* absent and changes nothing (side table, segment sequence, id-to-position
\* mapping); a second call gives the same result.
C5_RemoveAbsent ==
    [][(call'.name = "remove" /\ ~Present(heap, call'.index)) =>
          /\ call'.ret = Undefined
          /\ heap'.err = NoErr
          /\ SameHeap(heap', heap)
          /\ ~Present(heap', call'.index)]_vars

\* the second of two remove() calls of an identifier that was not present
C5_Witness ==
    /\ call.name = "remove" /\ prev.name = "remove"
    /\ call.index = prev.index
    /\ prev.ret = Undefined /\ call.ret = Undefined
    /\ heap.partitions # <<>>

\* the identifiers the drain loop has yielded
DrainedIds == {drained[k][1] : k \in 1..Len(drained)}

\* C6: from any reachable state the loop 'x = next(); if x is absent stop;
\* remove(x)' stops after as many iterations as there were present
\* identifiers, yields each of them exactly once, and the scores of the
\* yielded identifiers never increase.
C6_Drain ==
    mode \in {"drain", "done"} =>
        /\ \A k, l \in 1..Len(drained) :
              k < l => /\ drained[k][1] # drained[l][1]
                       /\ drained[k][2] >= drained[l][2]
        /\ DrainedIds \subseteq start
        /\ MemberIds = start \ DrainedIds
        /\ (mode = "drain" /\ call.name = "next") => call.ret \in MemberIds
        /\ (mode = "drain" /\ call.name = "remove") => call.ret = call.index
        /\ mode = "done" => /\ DrainedIds = start
                            /\ Len(drained) = Cardinality(start)

\* a finished loop that began in the middle of a script, after identifiers had
\* been removed, and yielded identifiers of different scores out of more than
\* one segment
C6_Witness ==
    /\ mode = "done"
    /\ script # <<>>
    /\ Cardinality(start) < Cardinality(DOMAIN members)
    /\ Len(drained) > MIN_SECTOR_LENGTH
    /\ drained[1][2] > drained[Len(drained)][2]

\* C7: between calls, for every adjacent pair of segments S[i], S[i+1] of
\* the sequence, S[i].max <= S[i+1].min, with the stored min and the max of
\* get max().
C7_SegmentOrder ==
    \A i \in 1..(Len(heap.partitions) - 1) :
        Le(PMax(heap.lookups, heap.partitions[i]), heap.partitions[i + 1].min)

\* three segments or more after an update, two of them meeting in one score
C7_Witness ==
    /\ call.name = "update" /\ Len(heap.partitions) >= 3
    /\ \E i \in 1..(Len(heap.partitions) - 1) :
          PMax(heap.lookups, heap.partitions[i]) = heap.partitions[i + 1].min

\* C8: in every reachable state no identifier occurs in the live region of
\* more than one segment, nor more than once in the live region of one: the
\* live slots are as many as the identifiers they hold.
C8_NoDoubleOwner ==
    LiveSlotsFrom(heap.partitions, 1) = Cardinality(LiveIds(heap))

\* a second update of an identifier that moved it out of its segment
C8_Witness ==
    /\ call.name = "update" /\ prev.name = "update"
    /\ call.index = prev.index /\ call.score # prev.score
    /\ heap.route \notin {"fast", "new"}
    /\ Len(heap.partitions) >= 2

\* C9: two consecutive next() calls with no update or remove between them
\* return the same value, also when the first call compacts tombstones or
\* pops exhausted segments.
C9_NextTwice ==
    (call.name = "next" /\ prev.name = "next") => call.ret = prev.ret

\* the first next() dropped a segment and shrank live regions, and the
\* second returned the same identifier
C9_Witness ==
    /\ call.name = "next" /\ prev.name = "next"
    /\ prev.segs > call.segs /\ prev.slots > call.slots
    /\ call.ret # Undefined

\* C10: next() leaves the set of present identifiers, every identifier's
\* score and every present identifier's owning segment unchanged; the only
\* segments it drops from the sequence are segments with no live identifier.
C10_NextFrame ==
    [][call'.name = "next" =>
          LET live == [i \in 1..Len(heap'.partitions) |-> Live(heap'.partitions[i])]
          IN /\ \A id \in Ids(heap) :
                   /\ Present(heap', id) <=> Present(heap, id)
                   /\ ScoreOf(heap', id) = ScoreOf(heap, id)
                   /\ Present(heap, id) =>
                         /\ Owner(heap', id) = Owner(heap, id)
                         /\ \E i \in 1..Len(heap'.partitions) :
                               /\ heap'.partitions[i].id = Owner(heap, id)
                               /\ id \in live[i]
             /\ \A i \in 1..Len(heap.partitions) :
                   \/ /\ i <= Len(heap'.partitions)
                      /\ heap'.partitions[i].id = heap.partitions[i].id
                   \/ Live(heap.partitions[i]) = {}]_vars

\* a next() that dropped a segment while an identifier was present
C10_Witness ==
    /\ call.name = "next" /\ call.ret \in MemberIds
    /\ call.segs > Len(heap.partitions)
    /\ call.slots > Slots(heap)

\* C11: after new ScoreHeap(pairs, maxLength) with distinct identifiers in
\* range, exactly the identifiers of pairs are present, each with the score
\* given and in one live slot of the segment the side table names as its
\* owner; every other identifier in range is absent and in no segment; and
\* the segments are in ascending score order: no identifier of a segment has
\* a higher score than an identifier of a later segment.
C11_Constructed ==
    call.name = "init" =>
        /\ heap.err = NoErr
        /\ PresentIds(heap) = MemberIds
        /\ \A id \in Ids(heap) :
              IF id \in MemberIds
              THEN /\ ScoreOf(heap, id) = members[id]
                   /\ Cardinality(SlotsOf(heap, id)) = 1
                   /\ \A sl \in SlotsOf(heap, id) :
                         SegmentsWithId(heap, Owner(heap, id)) = {sl[1]}
              ELSE /\ ~Present(heap, id)
                   /\ SlotsOf(heap, id) = {}
        /\ \A i, j \in 1..Len(heap.partitions) :
              i < j => \A x \in Live(heap.partitions[i]), y \in Live(heap.partitions[j]) :
                          ScoreOf(heap, x) <= ScoreOf(heap, y)

\* a heap constructed from pairs given out of order, with a uniform segment
\* and two sorted segments and an identifier left absent
C11_Witness ==
    /\ call.name = "init" /\ mode = "built"
    /\ Len(heap.partitions) >= 3
    /\ heap.partitions[1].uniform /\ ~heap.partitions[2].uniform
    /\ MemberIds # Ids(heap) /\ MemberIds # {}

\* the heap as constructed with capacity n from n pairs of one score
ConstructedOfOneScore(n, score) ==
    /\ call.name = "init"
    /\ MaxLength(heap) = n
    /\ members = [i \in 0..(n - 1) |-> score]

\* C12 as stated: the heap constructed with capacity 4 from the pairs
\* (0,5), (1,5), (2,5), (3,5) is a single uniform segment.
C12_SingleUniform ==
    ConstructedOfOneScore(4, 5) =>
        /\ Len(heap.partitions) = 1
        /\ heap.partitions[1].uniform

\* C12, amended: the heap constructed with capacity 4 from the pairs (0,5),
\* (1,5), (2,5), (3,5) is a single sorted segment that holds 0, 1, 2, 3 in
\* this order: four pairs do not fill a chunk of 32, and only a full chunk
\* of one score is made a uniform segment.
C12_SingleSorted ==
    ConstructedOfOneScore(4, 5) =>
        /\ heap.partitionLength = MIN_SECTOR_LENGTH
        /\ Len(heap.partitions) = 1
        /\ ~heap.partitions[1].uniform
        /\ heap.partitions[1].length = 4
        /\ Subarray(heap.partitions[1].indices, 0, 4) = <<0, 1, 2, 3>>
        /\ heap.partitions[1].min = 5

\* the heap constructed from the four pairs of score 5, before any call
C12_Witness ==
    /\ ConstructedOfOneScore(4, 5)
    /\ script # <<>>
    /\ Len(heap.partitions) = 1
    /\ LiveIds(heap) = 0..3

\* the state after update(0, 5), the first call on the heap constructed with
\* capacity 2 and both identifiers, identifier 1 with score 1
AfterUpdateOfZero ==
    /\ call.name = "update" /\ call.index = 0 /\ call.score = 5
    /\ prev.name = "init" /\ call.slots = 2
    /\ MaxLength(heap) = 2
    /\ members[1] = 1

\* C13 as stated: on the heap constructed with capacity 2 from the pairs
\* (0,1), (1,1), update(0, 5) moves 0 out of the segment that holds 1 into a
\* new segment above it, and the next() after it returns 0.
C13_MovedToNewSegment ==
    [][/\ (ConstructedOfOneScore(2, 1) /\ call'.name = "update"
           /\ call'.index = 0 /\ call'.score = 5) =>
              /\ Len(heap'.partitions) = 2
              /\ Live(heap'.partitions[1]) = {1}
              /\ Live(heap'.partitions[2]) = {0}
              /\ Owner(heap', 0) # Owner(heap', 1)
              /\ heap'.partitions[2].id \notin {heap.partitions[i].id :
                                                   i \in 1..Len(heap.partitions)}
       /\ (AfterUpdateOfZero /\ call'.name = "next") => call'.ret = 0]_vars

\* C13, amended: on the heap constructed with capacity 2 from the pairs
\* (0,1), (1,1), which is a single sorted segment, update(0, 5) keeps 0 in
\* that segment and places it after 1 (no segment is created), and the
\* next() after it returns 0.
C13_MovedInPlace ==
    [][/\ (ConstructedOfOneScore(2, 1) /\ call'.name = "update"
           /\ call'.index = 0 /\ call'.score = 5) =>
              /\ Len(heap.partitions) = 1 /\ ~heap.partitions[1].uniform
              /\ heap'.err = NoErr /\ heap'.route = "fast"
              /\ Len(heap'.partitions) = 1 /\ ~heap'.partitions[1].uniform
              /\ heap'.partitions[1].id = heap.partitions[1].id
              /\ heap'.partitions[1].length = 2
              /\ Subarray(heap'.partitions[1].indices, 0, 2) = <<1, 0>>
              /\ Owner(heap', 0) = heap'.partitions[1].id
              /\ Owner(heap', 1) = heap'.partitions[1].id
              /\ ScoreOf(heap', 0) = 5 /\ ScoreOf(heap', 1) = 1
       /\ (AfterUpdateOfZero /\ call'.name = "next") => call'.ret = 0]_vars

\* the next() that follows update(0, 5) on the heap of the two pairs
C13_Witness ==
    /\ call.name = "next" /\ call.ret = 0
    /\ prev.name = "update" /\ prev.index = 0 /\ prev.score = 5 /\ prev.slots = 2
    /\ MaxLength(heap) = 2 /\ members[1] = 1
    /\ Len(heap.partitions) = 1

\* the only segment of h is a sorted segment that holds segmentCapacity
\* identifiers with distinct ascending scores
FullAscending(h) ==
    /\ Len(h.partitions) = 1
    /\ ~h.partitions[1].uniform
    /\ h.partitions[1].length = h.partitionLength
    /\ \A k \in 0..(h.partitionLength - 2) :
          ScoreOf(h, Get(h.partitions[1].indices, k))
              < ScoreOf(h, Get(h.partitions[1].indices, k + 1))

\* C14: when the only segment is a full sorted segment of distinct ascending
\* scores, update(id, s) of an absent id with s above the segment's max
\* splits it into the lower half, which stays in the segment, and the upper
\* half, which goes to a new sorted segment after it, segmentCapacity / 2
\* identifiers each in their order, and appends id to the upper half; the
\* identifiers of the two segments are the old ones and id, each once.
C14_SplitFullSegment ==
    [][(/\ FullAscending(heap)
        /\ call'.name = "update"
        /\ call'.index \in Ids(heap) /\ ~Present(heap, call'.index)
        /\ call'.score > PMax(heap.lookups, heap.partitions[1])) =>
          LET half == heap.partitionLength \div 2
              old == Subarray(heap.partitions[1].indices, 0, heap.partitionLength)
              lo == heap'.partitions[1]
              hi == heap'.partitions[2]
          IN /\ heap'.err = NoErr
             /\ Len(heap'.partitions) = 2
             /\ ~lo.uniform /\ ~hi.uniform
             /\ lo.id = heap.partitions[1].id /\ hi.id # lo.id
             /\ lo.length = half
             /\ Subarray(lo.indices, 0, half) = SubSeq(old, 1, half)
             /\ hi.length = half + 1
             /\ Subarray(hi.indices, 0, half + 1)
                    = SubSeq(old, half + 1, 2 * half) \o <<call'.index>>
             /\ Owner(heap', call'.index) = hi.id
             /\ ScoreOf(heap', call'.index) = call'.score
             /\ LiveIds(heap') = LiveIds(heap) \cup {call'.index}
             /\ LiveSlotsFrom(heap'.partitions, 1) = heap.partitionLength + 1]_vars

\* the update that split the full segment of 32 distinct ascending scores:
\* 16 identifiers below, 17 above, the last of them the new one
C14_Witness ==
    /\ call.name = "update" /\ prev.name = "init"
    /\ call.segs = 1 /\ call.slots = MIN_SECTOR_LENGTH
    /\ heap.route = "10"
    /\ Len(heap.partitions) = 2
    /\ heap.partitions[1].length = 16 /\ heap.partitions[2].length = 17
    /\ Get(heap.partitions[2].indices, 16) = call.index
    /\ call.score > MIN_SECTOR_LENGTH

\* C15: remove(id) with id outside [0, maxLength) returns absent, throws
\* nothing and changes nothing: side table, segment sequence, id-to-position
\* mapping and id counter are as before.
C15_RemoveOutside ==
    [][(call'.name = "remove" /\ call'.index \notin Ids(heap)) =>
          /\ call'.ret = Undefined
          /\ heap'.err = NoErr
          /\ SameHeap(heap', heap)]_vars

\* a remove() of the identifier maxLength + 1 on a heap that holds a uniform
\* segment, after another call
C15_Witness ==
    /\ call.name = "remove" /\ call.index = MaxLength(heap) + 1
    /\ call.ret = Undefined
    /\ prev.name # "init"
    /\ \E i \in 1..Len(heap.partitions) : heap.partitions[i].uniform

\* C16: update(id, s) with id outside [0, maxLength) fails with an error and
\* leaves the side table and the segment sequence unchanged, so that no
\* identifier out of range is in a segment.
C16_UpdateOutsideRejected ==
    [][(call'.name = "update" /\ call'.index \notin Ids(heap)) =>
          /\ heap'.err # NoErr
          /\ heap'.lookups = heap.lookups
          /\ heap'.partitions = heap.partitions
          /\ LiveIds(heap') \subseteq Ids(heap')]_vars

\* C17: between calls, for every identifier in range: when a segment's live
\* region contains it there is one such segment and the side table's owner
\* field is that segment's id; when none contains it the owner is negative.
\* (Stated segment by segment: the segments' ids differ, every identifier in
\* a live region has that segment's id as owner, and an identifier in no
\* live region has a negative owner.)
C17_OwnerIsContainingSegment ==
    LET live == [i \in 1..Len(heap.partitions) |-> Live(heap.partitions[i])]
        all == UNION {live[i] : i \in 1..Len(heap.partitions)}
    IN /\ \A i, j \in 1..Len(heap.partitions) :
             heap.partitions[i].id = heap.partitions[j].id => i = j
       /\ \A i \in 1..Len(heap.partitions) :
             \A x \in live[i] : Owner(heap, x) = heap.partitions[i].id
       /\ \A id \in Ids(heap) \ all : IsNeg(Owner(heap, id))

\* an update emptied the middle one of three segments and its neighbours
\* were joined into a uniform segment, which owns every identifier but the
\* updated one
C17_Witness ==
    /\ call.name = "update" /\ heap.route = "7"
    /\ call.segs = 3 /\ Len(heap.partitions) = 2
    /\ heap.partitions[1].uniform
    /\ heap.partitions[1].length = call.slots - 1
    /\ call.slots > MIN_SECTOR_LENGTH + 1

\* C18: after construction and after every call, the id-to-position mapping
\* gives, for the segment at every position of the sequence, that position.
C18_PositionsRecorded ==
    \A i \in 1..Len(heap.partitions) :
        Get(heap.partitionIds, heap.partitions[i].id) = i - 1

\* an update emptied the middle one of three sorted segments, its neighbours
\* were merged into one, and the identifier went into the merged segment
C18_Witness ==
    /\ call.name = "update" /\ heap.route = "3"
    /\ call.segs = 3 /\ Len(heap.partitions) = 1
    /\ ~heap.partitions[1].uniform
    /\ heap.partitions[1].length = call.slots

\* a comes before b in a sorted segment: the segment's comparator, with b
\* the identifier searched for and a the one at the position, is positive.
\* The difference of the scores is NaN, and the identifiers decide, when a
\* score is read outside the side table.
Before(h, a, b) ==
    LET d == IF IsDef(ScoreOf(h, a)) /\ IsDef(ScoreOf(h, b))
             THEN ScoreOf(h, b) - ScoreOf(h, a) ELSE 0
    IN IF d # 0 THEN d > 0
       ELSE IsDef(a) /\ IsDef(b) /\ b - a > 0

\* C19: between calls, the identifiers of every sorted segment in the
\* positions [0, length) are strictly ascending in (score, then identifier).
C19_SortedAscending ==
    \A i \in 1..Len(heap.partitions) :
        ~heap.partitions[i].uniform =>
            \A k \in 0..(heap.partitions[i].length - 2) :
                Before(heap, Get(heap.partitions[i].indices, k),
                       Get(heap.partitions[i].indices, k + 1))

\* an in-place update of identifier 0, which leaves the first position, in
\* the segment that the call before merged out of two sorted segments
C19_Witness ==
    /\ call.name = "update" /\ heap.route = "fast"
    /\ prev.name = "update" /\ prev.segs = 3 /\ call.segs = 1
    /\ call.index = 0
    /\ Get(heap.partitions[1].indices, 0) # 0
    /\ heap.partitions[1].length > 3

\* C20: between calls, every live identifier of a uniform segment has, in
\* the side table, the score the segment holds as its min (which is its
\* max).
C20_UniformSharesScore ==
    \A i \in 1..Len(heap.partitions) :
        heap.partitions[i].uniform =>
            \A x \in Live(heap.partitions[i]) :
                ScoreOf(heap, x) = heap.partitions[i].min

\* a uniform segment made by the join of two sorted segments of one score,
\* by the update that emptied the segment between them
C20_Witness ==
    /\ call.name = "update" /\ call.segs = 3
    /\ Len(heap.partitions) = 2
    /\ heap.partitions[1].uniform
    /\ heap.partitions[1].id = heap.nextId - 2
    /\ Cardinality(Live(heap.partitions[1])) > MIN_SECTOR_LENGTH

\* C21: between calls, the slot hint of every live identifier of a uniform
\* segment is the slot of the live region that holds it (indices[h] = x with
\* 0 <= h < length), and the slot hint of every other identifier in range,
\* absent or owned by a sorted segment, is -1.
C21_SlotHints ==
    LET uni == {i \in 1..Len(heap.partitions) : heap.partitions[i].uniform}
        held == UNION {Live(heap.partitions[i]) : i \in uni}
    IN /\ \A i \in uni : \A k \in LiveSlots(heap.partitions[i]) :
             SlotHint(heap, Get(heap.partitions[i].indices, k)) = k
       /\ \A id \in Ids(heap) \ held : SlotHint(heap, id) = 0 - 1

\* an identifier was appended to a uniform segment whose first slot is a
\* tombstone: the identifier that held it went to a sorted segment by the
\* call before
C21_Witness ==
    /\ call.name = "update" /\ heap.route = "1"
    /\ prev.name = "update" /\ prev.index # call.index
    /\ Len(heap.partitions) = 2
    /\ heap.partitions[1].uniform /\ ~heap.partitions[2].uniform
    /\ IsNeg(Get(heap.partitions[1].indices, 0))
    /\ Get(heap.partitions[1].indices, heap.partitions[1].length - 1) = call.index
    /\ Owner(heap, prev.index) = heap.partitions[2].id

\* C22: in every reachable state every sorted segment holds at least one and
\* at most segmentCapacity identifiers, and no call has failed; an insert
\* into a sorted segment adds one to its length (or fails when the backing
\* array is full), so the segment an update has inserted into held fewer
\* than segmentCapacity identifiers when the insert was made.
C22_SortedWithinCapacity ==
    /\ heap.err = NoErr
    /\ \A i \in 1..Len(heap.partitions) :
          ~heap.partitions[i].uniform =>
              /\ 1 <= heap.partitions[i].length
              /\ heap.partitions[i].length <= heap.partitionLength
    /\ (call.name = "update" /\ heap.route \in {"new", "3", "5", "6", "7", "8", "10"}) =>
          \E i \in 1..Len(heap.partitions) :
              /\ ~heap.partitions[i].uniform
              /\ call.index \in Live(heap.partitions[i])
              /\ heap.partitions[i].length - 1 < heap.partitionLength

\* the target of the update was a full sorted segment: the identifier went
\* to the first position of the sorted segment above it, which had room
C22_Witness ==
    /\ call.name = "update" /\ heap.route = "5"
    /\ Len(heap.partitions) = 2
    /\ ~heap.partitions[1].uniform
    /\ heap.partitions[1].length = heap.partitionLength
    /\ ~heap.partitions[2].uniform
    /\ Get(heap.partitions[2].indices, 0) = call.index
    /\ heap.partitions[2].length = call.slots + 1 - heap.partitionLength

\* the positions of the segments that own id and hold no other live
\* identifier
OwnedAlone(h, id) ==
    {i \in SegmentsWithId(h, Owner(h, id)) : Live(h.partitions[i]) = {id}}

\* C23 as stated: whenever remove(id) leaves id's owning segment with no
\* live identifier, that segment is no longer in the segment sequence when
\* remove returns, for sorted and for uniform segments alike.
C23_EmptiedSegmentGone ==
    [][(call'.name = "remove" /\ Present(heap, call'.index)) =>
          \A i \in OwnedAlone(heap, call'.index) :
              SegmentsWithId(heap', heap.partitions[i].id) = {}]_vars

\* C23, amended: whenever remove(id) leaves id's owning sorted segment with
\* no live identifier, that segment is no longer in the segment sequence
\* when remove returns; a uniform segment left with no live identifier
\* stays in the sequence at its position, with its length and only
\* tombstones in its slots.
C23_EmptiedSortedGone ==
    [][(call'.name = "remove" /\ Present(heap, call'.index)) =>
          \A i \in OwnedAlone(heap, call'.index) :
              IF heap.partitions[i].uniform
              THEN /\ Len(heap'.partitions) = Len(heap.partitions)
                   /\ heap'.partitions[i].id = heap.partitions[i].id
                   /\ heap'.partitions[i].uniform
                   /\ heap'.partitions[i].length = heap.partitions[i].length
                   /\ heap'.partitions[i].length >= 1
                   /\ Live(heap'.partitions[i]) = {}
              ELSE /\ SegmentsWithId(heap', heap.partitions[i].id) = {}
                   /\ Len(heap'.partitions) = Len(heap.partitions) - 1]_vars

\* a remove() has taken the last live identifier of a uniform segment, after
\* removes of its other identifiers, and the segment is in the sequence
C23_Witness ==
    /\ call.name = "remove" /\ call.ret = call.index
    /\ prev.name = "next" /\ prev.ret = call.index
    /\ Len(drained) >= MIN_SECTOR_LENGTH
    /\ Len(heap.partitions) >= 1
    /\ heap.partitions[Len(heap.partitions)].uniform
    /\ Live(heap.partitions[Len(heap.partitions)]) = {}
    /\ heap.partitions[Len(heap.partitions)].length >= 1

\* update(id, s) takes the fast path: id is owned by a uniform segment whose
\* shared score is s, or by a sorted segment that is the only segment, or
\* that has min <= s and is the last segment or has a successor with min > s
TakesFastPath(h, id, s) ==
    /\ Present(h, id)
    /\ \E i \in SegmentsWithId(h, Owner(h, id)) :
          IF h.partitions[i].uniform
          THEN h.partitions[i].min = s
          ELSE \/ Len(h.partitions) = 1
               \/ /\ Le(h.partitions[i].min, s)
                  /\ \/ i = Len(h.partitions)
                     \/ Gt(h.partitions[i + 1].min, s)

\* the segment sequence: the number, the order, the ids and the kinds of the
\* segments
Shape(h) ==
    [i \in 1..Len(h.partitions) |-> <<h.partitions[i].id, h.partitions[i].uniform>>]

\* C24: whenever update(id, s) takes the fast path, the segment sequence
\* (number, order, ids and kinds of segments) and id's owning segment are
\* unchanged by the call; id is in the live region of that segment, with
\* score s, and the segments hold as many identifiers as before.
C24_FastPathFrame ==
    [][(/\ call'.name = "update"
        /\ call'.index \in Ids(heap)
        /\ TakesFastPath(heap, call'.index, call'.score)) =>
          /\ heap'.err = NoErr
          /\ Shape(heap') = Shape(heap)
          /\ heap'.partitionIds = heap.partitionIds
          /\ Owner(heap', call'.index) = Owner(heap, call'.index)
          /\ ScoreOf(heap', call'.index) = call'.score
          /\ \A i \in 1..Len(heap.partitions) :
                /\ Live(heap'.partitions[i]) = Live(heap.partitions[i])
                /\ heap'.partitions[i].length = heap.partitions[i].length]_vars

\* a fast-path update of identifier 0 in the first of several segments, a
\* sorted one: 0 has left the first position for a later one
C24_Witness ==
    /\ call.name = "update" /\ heap.route = "fast"
    /\ call.index = 0
    /\ Len(heap.partitions) >= 2
    /\ ~heap.partitions[1].uniform
    /\ 0 \in Live(heap.partitions[1])
    /\ Get(heap.partitions[1].indices, 0) # 0
    /\ heap.partitions[1].min < call.score
    /\ heap.partitions[2].min > call.score

\* C25: if id is a live member of a uniform segment with shared score u and
\* update(id, s) is called with s # u, then afterwards that uniform segment
\* is in the sequence with its kind and its shared score, id is not in its
\* live region, and id is in the live region of the segment that owns it,
\* which is positioned above the uniform segment when s > u and below it
\* when s < u.
C25_LeavesUniform ==
    [][(call'.name = "update" /\ call'.index \in Ids(heap)
        /\ Present(heap, call'.index)) =>
          \A i \in SegmentsWithId(heap, Owner(heap, call'.index)) :
              (/\ heap.partitions[i].uniform
               /\ call'.index \in Live(heap.partitions[i])
               /\ call'.score # heap.partitions[i].min) =>
                  /\ heap'.err = NoErr
                  /\ Cardinality(SegmentsWithId(heap', heap.partitions[i].id)) = 1
                  /\ \A j \in SegmentsWithId(heap', heap.partitions[i].id) :
                        /\ heap'.partitions[j].uniform
                        /\ heap'.partitions[j].min = heap.partitions[i].min
                        /\ call'.index \notin Live(heap'.partitions[j])
                        /\ Cardinality(SegmentsWithId(heap', Owner(heap', call'.index))) = 1
                        /\ \A k \in SegmentsWithId(heap', Owner(heap', call'.index)) :
                              /\ call'.index \in Live(heap'.partitions[k])
                              /\ IF call'.score > heap.partitions[i].min
                                 THEN k > j ELSE k < j]_vars

\* the first call took an identifier out of a uniform segment, which keeps
\* its tombstone, into a new sorted segment below it
C25_Witness ==
    /\ call.name = "update" /\ prev.name = "init"
    /\ Len(heap.partitions) >= 2
    /\ Len(heap.partitions) = call.segs + 1
    /\ Live(heap.partitions[1]) = {call.index}
    /\ ~heap.partitions[1].uniform
    /\ heap.partitions[2].uniform
    /\ call.score < heap.partitions[2].min
    /\ Cardinality(Live(heap.partitions[2])) = heap.partitions[2].length - 1
    /\ Slots(heap) = call.slots + 1

\* C26: in every step in which a segment id that was a sorted segment is a
\* uniform segment afterwards, the step is an update(id, s), the sorted
\* segment held exactly segmentCapacity identifiers, all of them with the
\* score s (its min is its max); and no segment id that is uniform is a
\* sorted segment after any step.
C26_ConversionOnlyOfFullOneScore ==
    [][\A i \in 1..Len(heap.partitions) :
          \A j \in SegmentsWithId(heap', heap.partitions[i].id) :
              /\ heap.partitions[i].uniform => heap'.partitions[j].uniform
              /\ (~heap.partitions[i].uniform /\ heap'.partitions[j].uniform) =>
                    /\ call'.name = "update"
                    /\ heap.partitions[i].length = heap.partitionLength
                    /\ heap.partitions[i].min = call'.score
                    /\ PartitionMax(heap.lookups, heap.partitions[i]) = call'.score
                    /\ \A x \in Live(heap.partitions[i]) :
                          ScoreOf(heap, x) = call'.score]_vars

\* an update has converted the full sorted segment of one score that was
\* its target, and the segment, now uniform, holds the identifier in the
\* slot after the old ones
C26_Witness ==
    /\ call.name = "update" /\ heap.route = "9"
    /\ \E i \in 1..Len(heap.partitions) :
          /\ heap.partitions[i].uniform
          /\ heap.partitions[i].id < heap.nextId - 1
          /\ heap.partitions[i].length = heap.partitionLength + 1
          /\ Get(heap.partitions[i].indices, heap.partitionLength) = call.index
          /\ heap.partitions[i].min = call.score
          /\ Len(heap.partitions[i].indices) = 2 * heap.partitionLength

\* C27: update(id, s) and remove(id) leave the presence and the score of
\* every identifier other than id unchanged, in the side table and in the
\* live regions of the segments, also when the call creates, deletes,
\* splits, joins or converts segments.
C27_OthersUntouched ==
    [][(call'.name \in {"update", "remove"} /\ call'.index \in Ids(heap)) =>
          /\ \A x \in Ids(heap) \ {call'.index} :
                /\ Present(heap', x) <=> Present(heap, x)
                /\ ScoreOf(heap', x) = ScoreOf(heap, x)
          /\ LiveIds(heap') \ {call'.index} = LiveIds(heap) \ {call'.index}]_vars

\* a remove() has deleted the first segment of the sequence, which the
\* update before it had created for the identifier, and the identifiers of
\* the uniform segment after it are present
C27_Witness ==
    /\ call.name = "remove" /\ call.ret = call.index
    /\ prev.name = "update" /\ prev.index = call.index
    /\ Len(heap.partitions) = call.segs - 1
    /\ Len(heap.partitions) >= 1
    /\ heap.partitions[1].uniform
    /\ heap.partitions[1].min > prev.score
    /\ MemberIds # {} /\ LiveIds(heap) = MemberIds

\* C28: no sequence of construction, update, remove and next calls with
\* distinct identifiers in range reaches the overflow error of the sorted
\* segment's join: the error is never thrown, and the backing array of every
\* sorted segment has segmentCapacity slots, the length that joinPartitions
\* requires the combined length of the two sorted segments not to exceed.
C28_NoJoinOverflow ==
    /\ heap.err # "Error"
    /\ \A i \in 1..Len(heap.partitions) :
          ~heap.partitions[i].uniform =>
              /\ Len(heap.partitions[i].indices) = heap.partitionLength
              /\ heap.partitions[i].length <= Len(heap.partitions[i].indices)

\* an update has emptied the middle one of three sorted segments and the
\* first has been joined with the last: the segment left holds identifiers
\* of both, identifier 0 and the last of the constructor's
C28_Witness ==
    /\ call.name = "update" /\ call.segs = 3
    /\ heap.err = NoErr
    /\ Len(heap.partitions) = 1
    /\ ~heap.partitions[1].uniform
    /\ {0, MaxLength(heap) - 2, call.index} \subseteq Live(heap.partitions[1])
    /\ heap.partitions[1].length > heap.partitionLength \div 2
    /\ heap.partitions[1].length <= Len(heap.partitions[1].indices)

\* C29: between calls, the stored min of every non-empty sorted segment is
\* the score of the identifier at its position 0, also after remove() has
\* deleted the segment's first identifier.
C29_MinIsFirstScore ==
    \A i \in 1..Len(heap.partitions) :
        (~heap.partitions[i].uniform /\ heap.partitions[i].length >= 1) =>
            heap.partitions[i].min = ScoreOf(heap, Get(heap.partitions[i].indices, 0))

\* the comparator is positive on the positions before the target, zero on a
\* match and negative on the positions after it
Directs(length, fn) ==
    \A i, j \in 0..(length - 1) :
        i < j => /\ fn[j] > 0 => fn[i] > 0
                 /\ fn[i] < 0 => fn[j] < 0
                 /\ fn[i] = 0 => fn[j] <= 0

\* the positions of 0 .. length - 1 where the comparator is zero
Matches(length, fn) == {p \in 0..(length - 1) : fn[p] = 0}

\* C30: searchBinary(n, cmp), for n > 0 and a comparator that is positive
\* on the positions before the target, zero on a match and negative after
\* it, returns a position p of 0 .. n - 1 with cmp(p) = 0 whenever there is
\* such a position.
C30_SearchFindsMatch ==
    (/\ search.done
     /\ search.length > 0
     /\ Directs(search.length, search.fn)
     /\ Matches(search.length, search.fn) # {}) =>
        search.ret \in Matches(search.length, search.fn)

\* a search over the longest range that has returned the last position, the
\* only match, which the first probe does not meet
C30_Witness ==
    /\ search.done
    /\ search.length = MaxSearch
    /\ Directs(search.length, search.fn)
    /\ Matches(search.length, search.fn) = {search.length - 1}
    /\ search.ret = search.length - 1
    /\ search.ret # (search.length - 1) \div 2

\* the insertion point of a search that has no match: the first position the
\* target orders before (the comparator is negative there), or length when
\* the target orders after every position
InsertionPoint(length, fn) ==
    LET After == {p \in 0..(length - 1) : fn[p] < 0}
    IN IF After = {} THEN length
       ELSE CHOOSE p \in After : \A q \in After : p <= q

\* C31 as stated: searchBinary(n, cmp), for n > 0 and no position with
\* cmp = 0, returns the insertion point, and the result lies within
\* [0, n - 1], also when the target orders after every one of the n
\* positions.
C31_InsertionPointWithinRange ==
    (/\ search.done
     /\ search.length > 0
     /\ Directs(search.length, search.fn)
     /\ Matches(search.length, search.fn) = {}) =>
        /\ search.ret = InsertionPoint(search.length, search.fn)
        /\ search.ret \in 0..(search.length - 1)

\* C31: searchBinary(n, cmp), for n > 0 and no position with cmp = 0,
\* returns the insertion point, and the result lies within [0, n]: it is n
\* exactly when the target orders after every one of the n positions.
C31_InsertionPointUpToLength ==
    (/\ search.done
     /\ search.length > 0
     /\ Directs(search.length, search.fn)
     /\ Matches(search.length, search.fn) = {}) =>
        /\ search.ret = InsertionPoint(search.length, search.fn)
        /\ search.ret \in 0..search.length
        /\ (search.ret = search.length) <=>
               (\A p \in 0..(search.length - 1) : search.fn[p] > 0)

\* a search over the longest range whose target orders after every position
\* has returned the length of the range
C31_Witness ==
    /\ search.done
    /\ search.length = MaxSearch
    /\ \A p \in 0..(search.length - 1) : search.fn[p] > 0
    /\ search.ret = search.length

\* the elements of the array a
Elements(a) == {a[i] : i \in 1..Len(a)}

\* the position of the element e in the array a
PositionOf(a, e) == CHOOSE i \in 0..(Len(a) - 1) : Get(a, i) = e

\* the elements of dest that come from src, in the order dest has them
TakenFrom(dest, src) ==
    LET FromSrc(e) == e \in Elements(src)
    IN SelectSeq(dest, FromSrc)

\* x comes before y in the order of the comparator: by score and, for the
\* comparator of Partition.join, by identifier on equal scores
Precedes(x, y, cmp) ==
    \/ Key(x) < Key(y)
    \/ (cmp = "join" /\ Key(x) = Key(y) /\ x < y)

\* C32: interleaveArrays(dest, A, B, cmp) with A and B ascending writes
\* into dest[0 .. a+b) an ascending sequence that contains exactly the
\* elements of A and of B, keeps the relative order of A's elements and of
\* B's elements, and returns for all lengths including a = 0 or b = 0.
C32_StableAscendingMerge ==
    merge.done =>
        /\ Len(merge.dest) = Len(merge.src1) + Len(merge.src2)
        /\ \A i, j \in 1..Len(merge.dest) :
               i < j => ~Precedes(merge.dest[j], merge.dest[i], merge.cmp)
        /\ Elements(merge.dest) = Elements(merge.src1) \cup Elements(merge.src2)
        /\ Cardinality(Elements(merge.dest)) = Len(merge.dest)
        /\ TakenFrom(merge.dest, merge.src1) = merge.src1
        /\ TakenFrom(merge.dest, merge.src2) = merge.src2

\* a merge with the comparator of Partition.join of two sources of the
\* longest length, of more than one score, that begins and ends with an
\* element of src2
C32_Witness ==
    /\ merge.done
    /\ merge.cmp = "join"
    /\ Len(merge.src1) = MaxMerge
    /\ Len(merge.src2) = MaxMerge
    /\ Get(merge.dest, 0) = Get(merge.src2, 0)
    /\ Get(merge.dest, Len(merge.dest) - 1) = Get(merge.src2, MaxMerge - 1)
    /\ Key(Get(merge.src1, 0)) < Key(Get(merge.src1, MaxMerge - 1))

\* the pairs <<a, b>> of a position of src1 and a position of src2 whose
\* elements compare equal: the comparator passed is 0 on them
Ties ==
    LET fn == MergeFn(merge.src1, merge.src2, merge.cmp)
    IN {ab \in (0..(Len(merge.src1) - 1)) \X (0..(Len(merge.src2) - 1)) :
           fn[ab[1], ab[2]] = 0}

\* C33 as stated: when an element of A and an element of B compare equal
\* under cmp, the element of B is placed before the element of A in the
\* destination.
C33_SecondBeforeFirstOnTie ==
    merge.done =>
        \A ab \in Ties :
            PositionOf(merge.dest, Get(merge.src2, ab[2]))
                < PositionOf(merge.dest, Get(merge.src1, ab[1]))

\* C33: when an element of A and an element of B compare equal under cmp,
\* the element of A is placed before the element of B in the destination.
C33_FirstBeforeSecondOnTie ==
    merge.done =>
        \A ab \in Ties :
            PositionOf(merge.dest, Get(merge.src1, ab[1]))
                < PositionOf(merge.dest, Get(merge.src2, ab[2]))

\* a merge of two sources of the longest length in which two elements of
\* src1 and two elements of src2 all compare equal, and an element of src1
\* is placed before one of src2 that compares equal to it
C33_Witness ==
    /\ merge.done
    /\ Len(merge.src1) = MaxMerge
    /\ Len(merge.src2) = MaxMerge
    /\ \E ab \in Ties : \E cd \in Ties :
           /\ ab[1] # cd[1] /\ ab[2] # cd[2]
           /\ <<ab[1], cd[2]>> \in Ties
           /\ PositionOf(merge.dest, Get(merge.src1, ab[1]))
                  < PositionOf(merge.dest, Get(merge.src2, ab[2]))

====
